---- MODULE Spec2Model ----
(***************************************************************************)
(* Job-to-experience matching pipeline of resume_builder:                  *)
(*   - LocalWeaviateDatabase.search_experiences_multi_query and its        *)
(*     aggregation (database/local_weaviate.py),                           *)
(*   - ExperienceRefiner (core/experience_refiner.py),                     *)
(*   - JobMatcher (core/job_matcher.py),                                   *)
(*   - SearchQueryOptimizer (core/search_optimizer.py).                    *)
(*                                                                         *)
(* Scores are Python floats in the source.  They are modelled as exact     *)
(* rationals <<numerator, denominator>> (denominator > 0, lowest terms),   *)
(* so every arithmetic step of the source is computed as written, without  *)
(* rounding.  A raised Python exception is modelled as a value             *)
(* [ok |-> FALSE, error |-> <exception class>, ...].                       *)
(***************************************************************************)
EXTENDS Integers, Sequences, FiniteSets, TLC

VARIABLES
    \* --- LocalWeaviateDatabase.search_experiences_multi_query -------------
    queries,        \* argument: list of query dicts, each paired with the
                    \* backend's answer to it
    limit,          \* argument: Optional[int]
    min_score,      \* argument: Optional[float]
    deduplicate,    \* argument: bool
    client,         \* self.client is set (the database is connected)
    search_pc,      \* "call" before the call, "returned" / "raised" after it
    search_out,     \* what the call produced
    merge,          \* one call of _aggregate_multi_query_results on its own:
                    \* the hits, the order they are fed in, what it returned
    \* --- ExperienceRefiner ----------------------------------------------
    refiner,        \* the refiner object: max_retries, enable_caching,
                    \* _cache, _stats, and the requests made to the AI service
    refiner_last,   \* the last call: its arguments and what it produced
    \* --- JobMatcher -------------------------------------------------------
    matcher,        \* the matcher object: its components, configuration,
                    \* _cache and _stats
    matcher_last,   \* the last call: its arguments and what it produced
    \* --- SearchQueryOptimizer ---------------------------------------------
    optimizer,      \* the optimizer object: enable_diversity
    optimizer_call, \* one call of generate_search_queries: its arguments,
                    \* "call" / "returned", and the list it returned
    \* --- concurrent callers of one JobMatcher --------------------------------
    threads         \* per thread: where its match_job_from_url call stands,
                    \* its arguments, the counter value it has loaded, the
                    \* stages it has started, and what the call produced

searchVars == <<queries, limit, min_score, deduplicate, client, search_pc, search_out, merge>>

refinerVars == <<refiner, refiner_last>>

matcherVars == <<matcher, matcher_last>>

optimizerVars == <<optimizer, optimizer_call>>

threadVars == <<threads>>

vars == <<searchVars, refinerVars, matcherVars, optimizerVars, threadVars>>

\* Optional values: None is the empty tuple, a present value x is <<x>>
None == <<>>
Some(x) == <<x>>

-----------------------------------------------------------------------------
(* Exact rational arithmetic                                               *)

RECURSIVE GCD(_, _)
GCD(a, b) == IF b = 0 THEN a ELSE GCD(b, a % b)

Abs(n) == IF n < 0 THEN -n ELSE n

Rat(n, d) ==
    LET g == GCD(Abs(n), d)
    IN  IF n = 0 THEN <<0, 1>> ELSE <<n \div g, d \div g>>

RMul(a, b) == Rat(a[1] * b[1], a[2] * b[2])
RAdd(a, b) == Rat(a[1] * b[2] + b[1] * a[2], a[2] * b[2])
RDivInt(a, k) == Rat(a[1], a[2] * k)
RInt(k) == <<k, 1>>
RLt(a, b) == a[1] * b[2] < b[1] * a[2]
RLe(a, b) == a[1] * b[2] <= b[1] * a[2]

\* a score given in tenths (9 is 0.9)
Tenths(n) == Rat(n, 10)

-----------------------------------------------------------------------------
(* Bounds and input domains of the search model                            *)

MaxQueries == 3

ExperienceIds == {"e1", "e2"}

\* What the vector backend answers to one near_text call: it fails, or it
\* returns hits (id, similarity score in tenths).
BackendResponses ==
    { [fail |-> TRUE, hits |-> <<>>],
      [fail |-> FALSE, hits |-> << [id |-> "e1", score |-> 9] >>],
      [fail |-> FALSE, hits |-> << [id |-> "e1", score |-> 8], [id |-> "e2", score |-> 5] >>],
      [fail |-> FALSE, hits |-> << [id |-> "e2", score |-> 9], [id |-> "e1", score |-> 5] >>],
      [fail |-> FALSE, hits |-> << [id |-> "e2", score |-> 10] >>] }

\* The query dicts the caller passes: text, priority (tenths), and the
\* backend's answer to the text.  A blank text never reaches the backend.
QueryOptions ==
    { [query |-> q.query, type |-> q.type, priority |-> q.priority, response |-> r] :
        q \in { [query |-> "python", type |-> "primary_skills", priority |-> 10],
                [query |-> "docker", type |-> "technology_stack", priority |-> 8] },
        r \in BackendResponses }
    \cup { [query |-> "  ", type |-> "unknown", priority |-> 10,
             response |-> [fail |-> TRUE, hits |-> <<>>]] }

RECURSIVE SeqsUpTo(_, _)
SeqsUpTo(S, n) ==
    IF n = 0 THEN { <<>> }
    ELSE LET shorter == SeqsUpTo(S, n - 1)
         IN  shorter \cup { Append(s, x) : s \in { t \in shorter : Len(t) = n - 1 }, x \in S }

Limits == {None, Some(0), Some(1), Some(2)}
MinScores == {None, Some(7)}

-----------------------------------------------------------------------------
(* LocalWeaviateDatabase.search_experiences                                *)

\* a search that applies no minimum score
FilterMinScore_Unfiltered(hits, min) == hits

RECURSIVE FilterMinScore(_, _)
FilterMinScore(hits, min) ==
    IF hits = <<>> THEN <<>>
    ELSE LET h == Head(hits)
             rest == FilterMinScore(Tail(hits), min)
         IN  IF min = None \/ h.score >= min[1] THEN <<h>> \o rest ELSE rest

\* a search that answers a backend failure with no hits instead of raising
search_experiences_Swallow(response, min) ==
    [ok |-> TRUE, error |-> "none",
     hits |-> IF response.fail THEN <<>> ELSE FilterMinScore(response.hits, min)]

\* near_text on the backend, conversion to dicts with 'score', and the
\* minimum score filter on the backend's own score.
search_experiences(response, min) ==
    IF response.fail
    THEN [ok |-> FALSE, error |-> "WeaviateDataError", hits |-> <<>>]
    ELSE [ok |-> TRUE, error |-> "none", hits |-> FilterMinScore(response.hits, min)]

-----------------------------------------------------------------------------
(* LocalWeaviateDatabase._aggregate_multi_query_results                    *)

IndexOfId(map, id) ==
    IF \E i \in 1..Len(map) : map[i].id = id
    THEN CHOOSE i \in 1..Len(map) : map[i].id = id
    ELSE 0

\* boost_factor = 1.0 + (total_weight - 1) * 0.1
BoostFactor(total_weight) == Rat(10 + (total_weight - 1), 10)

\* a merge that averages the stored score with the new one, ignoring the
\* number of hits already merged
CombineDuplicate_Unweighted(existing, result) ==
    LET total_weight == existing.query_count + 1
        combined_score == RDivInt(RAdd(existing.score, result.score), 2)
    IN  [existing EXCEPT
            !.score = combined_score,
            !.query_count = total_weight,
            !.query_matches = Append(existing.query_matches, result.query_info),
            !.final_score = RMul(combined_score, BoostFactor(total_weight))]

\* the branch "exp_id in experience_map"
CombineDuplicate(existing, result) ==
    LET existing_weight == existing.query_count
        total_weight == existing_weight + 1
        combined_score ==
            RDivInt(RAdd(RMul(existing.score, RInt(existing_weight)), result.score),
                    total_weight)
    IN  [existing EXCEPT
            !.score = combined_score,
            !.query_count = total_weight,
            !.query_matches = Append(existing.query_matches, result.query_info),
            !.final_score = RMul(combined_score, BoostFactor(total_weight))]

\* a first hit stored without its query
FirstSeen_NoQuery(result) ==
    [id |-> result.id, score |-> result.score, original_score |-> result.original_score,
     query_info |-> result.query_info, query_count |-> 1,
     final_score |-> result.score, query_matches |-> <<>>]

\* the branch "first time seeing this experience"
FirstSeen(result) ==
    [id |-> result.id, score |-> result.score, original_score |-> result.original_score,
     query_info |-> result.query_info, query_count |-> 1,
     final_score |-> result.score, query_matches |-> <<result.query_info>>]

RECURSIVE AggregateInto(_, _)
AggregateInto(map, results) ==
    IF results = <<>> THEN map
    ELSE LET result == Head(results)
             k == IndexOfId(map, result.id)
         IN  IF k # 0
             THEN AggregateInto([map EXCEPT ![k] = CombineDuplicate(map[k], result)],
                                Tail(results))
             ELSE AggregateInto(Append(map, FirstSeen(result)), Tail(results))

\* experience_map is a dict: its values are listed in insertion order
aggregate_multi_query_results(results) == AggregateInto(<<>>, results)

-----------------------------------------------------------------------------
(* LocalWeaviateDatabase.search_experiences_multi_query                    *)

\* query_text = query_info.get('query', '').strip(); the texts of the model
\* are a word or blanks
Strip(text) == IF text = "  " THEN "" ELSE text

\* "Add query metadata to results" and "Adjust score based on query priority"
RECURSIVE AnnotateResults(_, _)
AnnotateResults(hits, query_info) ==
    IF hits = <<>> THEN <<>>
    ELSE LET h == Head(hits)
         IN  << [id |-> h.id,
                 query_info |-> [query |-> Strip(query_info.query), type |-> query_info.type,
                                 priority |-> query_info.priority],
                 original_score |-> Tenths(h.score),
                 score |-> RMul(Tenths(h.score), Tenths(query_info.priority))] >>
             \o AnnotateResults(Tail(hits), query_info)

\* The loop "for query_info in queries".  search_experiences is called with
\* no handler of its own inside the loop: a failing query leaves the loop.
RECURSIVE ExecuteQueries(_, _, _)
ExecuteQueries(qs, min, all_results) ==
    IF qs = <<>> THEN [ok |-> TRUE, all_results |-> all_results]
    ELSE LET query_info == Head(qs)
         IN  IF Strip(query_info.query) = ""
             THEN ExecuteQueries(Tail(qs), min, all_results)
             ELSE LET query_results == search_experiences(query_info.response, min)
                  IN  IF ~query_results.ok
                      THEN [ok |-> FALSE, all_results |-> <<>>]
                      ELSE ExecuteQueries(Tail(qs), min,
                               all_results \o AnnotateResults(query_results.hits, query_info))

\* key=lambda x: x.get('final_score', x.get('score', 0))
SortKey(x) == IF "final_score" \in DOMAIN x THEN x.final_score ELSE x.score

\* a sort without reverse=True: ascending
RECURSIVE InsertDesc_Ascending(_, _)
InsertDesc_Ascending(sortedSeq, x) ==
    IF sortedSeq = <<>> THEN <<x>>
    ELSE IF RLt(SortKey(x), SortKey(Head(sortedSeq)))
         THEN <<x>> \o sortedSeq
         ELSE <<Head(sortedSeq)>> \o InsertDesc_Ascending(Tail(sortedSeq), x)

\* sorted(..., reverse=True): stable, equal keys keep their input order
RECURSIVE InsertDesc(_, _)
InsertDesc(sortedSeq, x) ==
    IF sortedSeq = <<>> THEN <<x>>
    ELSE IF RLt(SortKey(Head(sortedSeq)), SortKey(x))
         THEN <<x>> \o sortedSeq
         ELSE <<Head(sortedSeq)>> \o InsertDesc(Tail(sortedSeq), x)

RECURSIVE SortedDesc(_)
SortedDesc(s) ==
    IF s = <<>> THEN <<>>
    ELSE InsertDesc(SortedDesc(SubSeq(s, 1, Len(s) - 1)), s[Len(s)])

\* "if limit: final_results = final_results[:limit]"
Truncate(s, lim) ==
    IF lim = None \/ lim[1] = 0 THEN s
    ELSE SubSeq(s, 1, IF lim[1] < Len(s) THEN lim[1] ELSE Len(s))

search_experiences_multi_query(connected, qs, lim, min, dedup) ==
    IF ~connected
    THEN [ok |-> FALSE, error |-> "WeaviateDataError", aggregated |-> <<>>, results |-> <<>>]
    ELSE IF qs = <<>>
    THEN [ok |-> TRUE, error |-> "none", aggregated |-> <<>>, results |-> <<>>]
    ELSE LET run == ExecuteQueries(qs, min, <<>>)
         IN  IF ~run.ok
             THEN [ok |-> FALSE, error |-> "WeaviateDataError",
                   aggregated |-> <<>>, results |-> <<>>]
             ELSE LET aggregated_results ==
                          IF dedup THEN aggregate_multi_query_results(run.all_results)
                          ELSE run.all_results
                  IN  [ok |-> TRUE, error |-> "none",
                       aggregated |-> aggregated_results,
                       results |-> Truncate(SortedDesc(aggregated_results), lim)]

-----------------------------------------------------------------------------
(* Values of the variables of a component that a specification leaves out  *)

RefinerUnused ==
    /\ refiner = [unused |-> TRUE]
    /\ refiner_last = [op |-> "none"]

MatcherUnused ==
    /\ matcher = [unused |-> TRUE]
    /\ matcher_last = [op |-> "none"]

OptimizerUnused ==
    /\ optimizer = [unused |-> TRUE]
    /\ optimizer_call = [pc |-> "unused"]

ThreadsUnused == threads = <<>>

MergeUnused == merge = [pc |-> "unused"]

MultiQueryUnused ==
    /\ queries = <<>>
    /\ limit = None
    /\ min_score = None
    /\ deduplicate = TRUE
    /\ client = FALSE
    /\ search_pc = "unused"
    /\ search_out = [unused |-> TRUE]

SearchUnused == MultiQueryUnused /\ MergeUnused

-----------------------------------------------------------------------------
(* Specification of the search: the arguments are drawn, the call is made  *)

SearchNotCalled == [ok |-> TRUE, error |-> "none", aggregated |-> <<>>, results |-> <<>>]

InitSearch ==
    /\ queries \in SeqsUpTo(QueryOptions, MaxQueries)
    /\ limit \in Limits
    /\ min_score \in MinScores
    /\ deduplicate \in BOOLEAN
    /\ client \in BOOLEAN
    /\ search_pc = "call"
    /\ search_out = SearchNotCalled
    /\ MergeUnused
    /\ RefinerUnused
    /\ MatcherUnused
    /\ OptimizerUnused
    /\ ThreadsUnused

MultiQuerySearch ==
    /\ search_pc = "call"
    /\ search_out' = search_experiences_multi_query(client, queries, limit, min_score, deduplicate)
    /\ search_pc' = IF search_out'.ok THEN "returned" ELSE "raised"
    /\ UNCHANGED <<queries, limit, min_score, deduplicate, client, merge>>
    /\ UNCHANGED <<refinerVars, matcherVars, optimizerVars, threadVars>>

NextSearch == MultiQuerySearch

SpecSearch == InitSearch /\ [][NextSearch]_vars

-----------------------------------------------------------------------------
(* What the arguments of the search say, read off the inputs directly      *)

RECURSIVE SumRat(_)
SumRat(s) == IF s = <<>> THEN RInt(0) ELSE RAdd(Head(s), SumRat(Tail(s)))

\* queries whose text is not blank: the ones sent to the backend
SentQueries == { i \in 1..Len(queries) : Strip(queries[i].query) # "" }
FailedQueries == { i \in SentQueries : queries[i].response.fail }
SurvivingQueries == { i \in SentQueries : ~queries[i].response.fail }

PassesMin(h) == min_score = None \/ h.score >= min_score[1]

\* scaled scores r*p of the backend hits on experience id, in query order
RECURSIVE ScaledScoresFrom(_, _)
ScaledScoresFrom(i, id) ==
    IF i > Len(queries) THEN <<>>
    ELSE LET q == queries[i]
             Mine(h) == h.id = id /\ PassesMin(h)
             own == IF i \in SurvivingQueries
                    THEN SelectSeq(q.response.hits, Mine)
                    ELSE <<>>
         IN  [j \in 1..Len(own) |-> RMul(Tenths(own[j].score), Tenths(q.priority))]
             \o ScaledScoresFrom(i + 1, id)

ScaledScores(id) == ScaledScoresFrom(1, id)

SearchReturned == search_pc = "returned" /\ client /\ queries # <<>>

Count(s, x) == Cardinality({ i \in 1..Len(s) : s[i] = x })
Range(s) == { s[i] : i \in 1..Len(s) }

ClaimedFinalScore(scores) ==
    RMul(RDivInt(SumRat(scores), Len(scores)), Rat(10 + (Len(scores) - 1), 10))

\* C7 (general part): with deduplicate=true an experience id returned by k
\* queries is merged into one hit with
\* finalScore = (sum of ri*pi / k) * (1 + 0.1*(k-1)).
C7_MergedScoreFormula ==
    (SearchReturned /\ deduplicate)
        => \A id \in ExperienceIds :
              LET scores == ScaledScores(id)
                  merged == { i \in 1..Len(search_out.aggregated) :
                                 search_out.aggregated[i].id = id }
              IN  IF scores = <<>> THEN merged = {}
                  ELSE /\ Cardinality(merged) = 1
                       /\ \A i \in merged :
                             /\ search_out.aggregated[i].final_score = ClaimedFinalScore(scores)
                             /\ search_out.aggregated[i].query_count = Len(scores)

\* the example of the claim: raw 0.9 under priority 1.0 and raw 0.8 under
\* priority 0.8, the same experience id
C7_ExampleCase ==
    /\ SearchReturned /\ deduplicate /\ min_score = None /\ Len(queries) = 2
    /\ queries[1].query = "python" /\ queries[1].priority = 10
    /\ queries[1].response.hits = << [id |-> "e1", score |-> 9] >>
    /\ queries[2].query = "docker" /\ queries[2].priority = 8
    /\ queries[2].response.hits # <<>> /\ queries[2].response.hits[1] = [id |-> "e1", score |-> 8]

ExampleFinalScore ==
    LET k == CHOOSE i \in 1..Len(search_out.aggregated) : search_out.aggregated[i].id = "e1"
    IN  search_out.aggregated[k].final_score

\* |a - n/1000| <= 5/1000
AboutThousandths(a, n) ==
    /\ RLe(Rat(n - 5, 1000), a)
    /\ RLe(a, Rat(n + 5, 1000))

\* C7 (as stated): the formula, and the example gives about 0.869.
C7_Original ==
    /\ C7_MergedScoreFormula
    /\ C7_ExampleCase => AboutThousandths(ExampleFinalScore, 869)

\* C7 (amended): the formula, and the example gives 0.847
\* (((0.9*1.0 + 0.8*0.8)/2) * 1.1 = 0.77 * 1.1).
C7_Amended ==
    /\ C7_MergedScoreFormula
    /\ C7_ExampleCase => ExampleFinalScore = Rat(847, 1000)

\* the example, with the score the code gives it
C7_WitnessExample == C7_ExampleCase /\ ExampleFinalScore = Rat(847, 1000)

\* the final score of a returned hit: the merged one, or without merging
\* the scaled score
FinalScore(x) == IF "final_score" \in DOMAIN x THEN x.final_score ELSE x.score

\* the output is ordered by final score, best first
OrderedDesc(out) ==
    \A i \in 1..Len(out) : \A j \in 1..Len(out) :
        RLt(FinalScore(out[j]), FinalScore(out[i])) => i < j

\* out holds only hits of all, none more often than all does, and no hit it
\* leaves out has a higher key than one it holds
BestOf(out, all) ==
    /\ \A x \in Range(out) : Count(out, x) <= Count(all, x)
    /\ \A x \in Range(all) :
          Count(out, x) < Count(all, x)
              => \A y \in Range(out) : RLe(FinalScore(x), FinalScore(y))

Min2(a, b) == IF a < b THEN a ELSE b

C9_Original ==
    (SearchReturned /\ min_score # None)
        => \A i \in 1..Len(search_out.results) :
              RLe(Tenths(min_score[1]), FinalScore(search_out.results[i]))

\* C9 (amended): the minScore is compared with the backend's own score of
\* each hit, before priority scaling: a backend hit below minScore is merged
\* into nothing, and every returned hit stems from backend hits of at least
\* minScore (its final score may be lower).
C9_Amended ==
    (SearchReturned /\ min_score # None)
        => \A i \in 1..Len(search_out.results) :
              LET r == search_out.results[i]
              IN  /\ RLe(Tenths(min_score[1]), r.original_score)
                  /\ deduplicate => r.query_count = Len(ScaledScores(r.id))

\* a hit below the minScore was dropped and a hit above it was returned
\* with a final score below the minScore
C9_Witness ==
    /\ SearchReturned /\ min_score # None /\ deduplicate
    /\ \E i \in SurvivingQueries : \E j \in 1..Len(queries[i].response.hits) :
          queries[i].response.hits[j].score < min_score[1]
    /\ \E i \in 1..Len(search_out.results) :
          RLt(FinalScore(search_out.results[i]), Tenths(min_score[1]))

-----------------------------------------------------------------------------
(* Strings of the refiner model.  TLC has no string operations, so the     *)
(* operations the source applies (lower, strip, len, substring) are given  *)
(* as tables over the vocabulary the model uses.                           *)

\* str.lower()
Lower(str) ==
    CASE str = "Python" -> "python"
      [] str = "Docker" -> "docker"
      [] str = "AWS" -> "aws"
      [] str = "Backend" -> "backend"
      [] str = "Pipelines" -> "pipelines"
      [] str = "Develop" -> "develop"
      [] str = "APIs" -> "apis"
      [] str = "Lead" -> "lead"
      [] str = "Work" -> "work"
      [] str = "REST" -> "rest"
      [] str = "Senior" -> "senior"
      [] OTHER -> str

\* str.strip()
StripText(str) ==
    CASE str = "  Led the AWS migration  " -> "Led the AWS migration"
      [] str = "  " -> ""
      [] OTHER -> str

\* len(str) >= 10, for a stripped string
AtLeastTenChars(str) == str \notin {"", "ok", "Did stuff"}

\* the lower-cased vocabulary words that are substrings of text.lower()
WordsIn(text) ==
    CASE text = "Built data pipelines in Python with Docker" -> {"python", "docker", "pipelines"}
      [] text = "  Led the AWS migration  " -> {"aws", "migration"}
      [] OTHER -> {}

-----------------------------------------------------------------------------
(* Experience, JobDescription and the AI service's answers                 *)

Experiences ==
    { [id |-> "e1", company |-> "Acme",
       text |-> "Built data pipelines in Python with Docker",
       skills |-> <<"Python", "Docker">>, categories |-> <<"Backend">>],
      [id |-> "e2", company |-> "Globex",
       text |-> "  Led the AWS migration  ",
       skills |-> <<"AWS">>, categories |-> <<>>],
      [id |-> "e3", company |-> "Initech",
       text |-> "Did stuff",
       skills |-> <<>>, categories |-> <<>>] }

BackendJob ==
    [title |-> "Backend Engineer", company |-> "Hooli",
     skills_mentioned |-> <<"python", "docker", "kubernetes">>,
     extracted_keywords |-> <<"Pipelines", "aws">>,
     categories |-> <<"backend">>]

GeneralistJob ==
    [title |-> "Generalist", company |-> "Hooli",
     skills_mentioned |-> <<>>, extracted_keywords |-> <<>>, categories |-> <<>>]

JobContexts == {BackendJob, GeneralistJob}

RefinementTypes == {"general", "job_specific"}

\* The dict the AI call hands back for one experience.  An empty list is a
\* missing key; scores are in tenths (15 is 1.5, outside [0,1]).
\* ExtractorDict has none of the keys the refiner reads: it is what
\* ExperienceExtractor.extract_information hands back (skills, categories,
\* relevant_jobs).
ExtractorDict ==
    [refined_accomplishments |-> <<>>, key_skills |-> <<>>,
     relevance_score |-> None, confidence_score |-> None]

AIResults ==
    { [refined_accomplishments |-> <<"Engineered Python data pipelines">>,
       key_skills |-> <<"Python", "python", "Docker">>,
       relevance_score |-> Some(9), confidence_score |-> Some(9)],
      ExtractorDict,
      [refined_accomplishments |-> <<"ok">>, key_skills |-> <<>>,
       relevance_score |-> Some(15), confidence_score |-> None] }

-----------------------------------------------------------------------------
(* RefinedExperience and its validator (models/match_result.py)            *)

\* validate_accomplishments: the stripped items of at least 10 characters
RECURSIVE CleanAccomplishments(_)
CleanAccomplishments(items) ==
    IF items = <<>> THEN <<>>
    ELSE LET item == StripText(Head(items))
         IN  (IF AtLeastTenChars(item) THEN <<item>> ELSE <<>>)
             \o CleanAccomplishments(Tail(items))

\* validate_skill_lists: stripped, first occurrence ignoring case
RECURSIVE CleanList(_, _)
CleanList(items, seen) ==
    IF items = <<>> THEN <<>>
    ELSE LET item == StripText(Head(items))
         IN  IF item # "" /\ Lower(item) \notin seen
             THEN <<item>> \o CleanList(Tail(items), seen \cup {Lower(item)})
             ELSE CleanList(Tail(items), seen)

\* validate_scores
ValidScore(score) == RLe(RInt(0), score) /\ RLe(score, RInt(1))

\* RefinedExperience(...): __post_init__ runs the validator, which raises
\* or hands back the cleaned fields
NewRefinedExperience(fields) ==
    IF \/ StripText(fields.original_experience_id) = ""
       \/ StripText(fields.company) = ""
       \/ CleanAccomplishments(fields.accomplishments) = <<>>
       \/ ~ValidScore(fields.relevance_score)
       \/ ~ValidScore(fields.confidence_score)
    THEN [ok |-> FALSE, error |-> "pydantic.ValidationError"]
    ELSE [ok |-> TRUE, error |-> "none",
          value |-> [original_experience_id |-> StripText(fields.original_experience_id),
                     company |-> StripText(fields.company),
                     accomplishments |-> CleanAccomplishments(fields.accomplishments),
                     skills |-> CleanList(fields.skills, {}),
                     tools_technologies |-> CleanList(fields.tools_technologies, {}),
                     relevance_score |-> fields.relevance_score,
                     confidence_score |-> fields.confidence_score,
                     keywords_matched |-> CleanList(fields.keywords_matched, {}),
                     refinement_notes |-> fields.refinement_notes]]

-----------------------------------------------------------------------------
(* ExperienceRefiner.calculate_relevance_score                             *)

LowerSet(list) == { Lower(list[i]) : i \in 1..Len(list) }

Max1(n) == IF n < 1 THEN 1 ELSE n

RMin(a, b) == IF RLt(b, a) THEN b ELSE a

\* a score that compares the skills and the categories with their case
calculate_relevance_score_CaseSensitive(experience, job_context) ==
    RAdd(RAdd(RMul(Rat(Cardinality({ i \in 1..Len(job_context.skills_mentioned) :
                                      \E j \in 1..Len(experience.skills) :
                                         experience.skills[j] = job_context.skills_mentioned[i] }),
                       Max1(Len(job_context.skills_mentioned))),
                   Rat(5, 10)),
              RMul(Rat(Cardinality({ i \in 1..Len(job_context.extracted_keywords) :
                                      Lower(job_context.extracted_keywords[i])
                                          \in WordsIn(experience.text) }),
                       Max1(Len(job_context.extracted_keywords))),
                   Rat(3, 10))),
         RMul(Rat(Cardinality({ i \in 1..Len(job_context.categories) :
                                 \E j \in 1..Len(experience.categories) :
                                    experience.categories[j] = job_context.categories[i] }),
                  Max1(Len(job_context.categories))),
              Rat(2, 10)))

calculate_relevance_score(experience, job_context) ==
    LET exp_skills == LowerSet(experience.skills)
        job_skills == LowerSet(job_context.skills_mentioned)
        skill_overlap == Cardinality(exp_skills \cap job_skills)
        skill_score == IF job_skills # {}
                       THEN Rat(skill_overlap, Max1(Cardinality(job_skills)))
                       ELSE RInt(0)
        keywords == job_context.extracted_keywords
        keyword_matches ==
            Cardinality({ i \in 1..Len(keywords) : Lower(keywords[i]) \in WordsIn(experience.text) })
        keyword_score == Rat(keyword_matches, Max1(Len(keywords)))
        exp_categories == LowerSet(experience.categories)
        job_categories == LowerSet(job_context.categories)
        category_overlap == Cardinality(exp_categories \cap job_categories)
        category_score == IF job_categories # {}
                          THEN Rat(category_overlap, Max1(Cardinality(job_categories)))
                          ELSE RInt(0)
        relevance_score ==
            RAdd(RAdd(RMul(skill_score, Rat(5, 10)), RMul(keyword_score, Rat(3, 10))),
                 RMul(category_score, Rat(2, 10)))
    IN  RMin(relevance_score, RInt(1))

-----------------------------------------------------------------------------
(* ExperienceRefiner._parse_refinement_result                              *)

\* except Exception as e: raise ValidationError(...)
AsValidationError(made) ==
    IF made.ok THEN made ELSE [ok |-> FALSE, error |-> "ValidationError"]

\* A list built item by item, each item made by a call that may raise:
\* the list so far with head in front, or the first error
ConsResult(head, rest) ==
    IF ~head.ok THEN [ok |-> FALSE, error |-> head.error]
    ELSE IF ~rest.ok THEN rest
    ELSE [rest EXCEPT !.value = <<head.value>> \o @]

\* ai_result is one of AIResults, or the dict built for an experience the
\* batch answer does not cover; job_context is None or <<job>>
parse_refinement_result(original_experience, ai_result, job_context) ==
    LET accomplishments ==
            IF ai_result.refined_accomplishments # <<>>
            THEN ai_result.refined_accomplishments
            ELSE <<original_experience.text>>
        given == IF ai_result.relevance_score = None
                 THEN RInt(0) ELSE Tenths(ai_result.relevance_score[1])
        relevance_score ==
            IF given = RInt(0) /\ job_context # None
            THEN calculate_relevance_score(original_experience, job_context[1])
            ELSE given
    IN  AsValidationError(
            NewRefinedExperience(
                [original_experience_id |-> original_experience.id,
                 company |-> original_experience.company,
                 accomplishments |-> accomplishments,
                 skills |-> ai_result.key_skills,
                 tools_technologies |-> <<>>,
                 relevance_score |-> relevance_score,
                 confidence_score |-> IF ai_result.confidence_score = None
                                      THEN Rat(8, 10)
                                      ELSE Tenths(ai_result.confidence_score[1]),
                 keywords_matched |-> <<>>,
                 refinement_notes |-> ""]))

-----------------------------------------------------------------------------
(* ExperienceRefiner: construction, cache, AI call with retries            *)

MaxRetries == 2
MaxRefineCalls == 2

\* self._cache = {} if self.enable_caching else None.  A dict is the set of
\* its items; isdict tells {} from None.
NewCache(enable_caching) == [isdict |-> enable_caching, items |-> {}]

\* bool(self._cache), as in "if self._cache": None and the empty dict are
\* both false
Truthy(cache) == cache.isdict /\ cache.items # {}

CacheHas(cache, key) == \E item \in cache.items : item.key = key
CacheGet(cache, key) == (CHOOSE item \in cache.items : item.key = key).value
CachePut(cache, key, value) ==
    [cache EXCEPT !.items = { item \in @ : item.key # key } \cup {[key |-> key, value |-> value]}]

NewRefiner(max_retries, enable_caching) ==
    [max_retries |-> max_retries,
     enable_caching |-> enable_caching,
     cache |-> NewCache(enable_caching),
     stats |-> [experiences_refined |-> 0, successful_refinements |-> 0,
                failed_refinements |-> 0, cache_hits |-> 0],
     requests |-> 0]

\* _generate_cache_key: company and hash of the text, title, company and
\* hash of the skills of the job, refinement type.  Equal hashes are taken
\* to mean equal values.
RefinerCacheKey(experience, job_context, refinement_type) ==
    << experience.company, experience.text,
       IF job_context = None THEN <<>>
       ELSE <<job_context[1].title, job_context[1].company, job_context[1].skills_mentioned>>,
       refinement_type >>

\* How the AI service behaves during one _call_openai_refinement: it fails
\* the first `fails` requests, then answers `result`.
AIBehaviours == { [fails |-> f, result |-> r] : f \in 0..MaxRetries, r \in AIResults }

\* a retry loop that answers an empty dict once the attempts are used up
call_openai_refinement_EmptyAnswer(max_retries, ai) ==
    IF max_retries = 0 \/ ai.fails >= max_retries
    THEN [ok |-> TRUE, error |-> "none", requests |-> max_retries,
          result |-> [refined_accomplishments |-> <<>>, key_skills |-> <<>>,
                      relevance_score |-> None, confidence_score |-> None]]
    ELSE [ok |-> TRUE, error |-> "none", requests |-> ai.fails + 1, result |-> ai.result]

\* _call_openai_refinement: up to max_retries requests, the first answer is
\* returned, the last failure becomes OpenAIIntegrationError
call_openai_refinement(max_retries, ai) ==
    IF max_retries = 0
    THEN [ok |-> FALSE, error |-> "OpenAIIntegrationError", requests |-> 0]
    ELSE IF ai.fails >= max_retries
    THEN [ok |-> FALSE, error |-> "OpenAIIntegrationError", requests |-> max_retries]
    ELSE [ok |-> TRUE, error |-> "none", requests |-> ai.fails + 1, result |-> ai.result]

Bump(stats, counter) == [stats EXCEPT ![counter] = @ + 1]

\* ExperienceRefiner.refine_experience.  Yields the refiner after the call
\* and what the call produced.
refine_experience(rf, experience, job_context, refinement_type, ai) ==
    LET counted == [rf EXCEPT !.stats = Bump(@, "experiences_refined")]
        cache_key == RefinerCacheKey(experience, job_context, refinement_type)
        failed(after, cause) ==
            [refiner |-> [after EXCEPT !.stats = Bump(@, "failed_refinements")],
             out |-> [ok |-> FALSE, error |-> "ExperienceRefinementError", cause |-> cause],
             cache_hit |-> FALSE]
    IN  IF Truthy(counted.cache) /\ CacheHas(counted.cache, cache_key)
        THEN [refiner |-> [counted EXCEPT !.stats = Bump(@, "cache_hits")],
              out |-> [ok |-> TRUE, error |-> "none",
                       value |-> CacheGet(counted.cache, cache_key)],
              cache_hit |-> TRUE]
        ELSE LET call == call_openai_refinement(counted.max_retries, ai)
                 called == [counted EXCEPT !.requests = @ + call.requests]
             IN  IF ~call.ok THEN failed(called, call.error)
                 ELSE LET parsed == parse_refinement_result(experience, call.result, job_context)
                      IN  IF ~parsed.ok THEN failed(called, parsed.error)
                          ELSE LET stored ==
                                       IF Truthy(called.cache)
                                       THEN [called EXCEPT
                                               !.cache = CachePut(@, cache_key, parsed.value)]
                                       ELSE called
                               IN  [refiner |-> [stored EXCEPT
                                                   !.stats = Bump(@, "successful_refinements")],
                                    out |-> [ok |-> TRUE, error |-> "none",
                                             value |-> parsed.value],
                                    cache_hit |-> FALSE]

-----------------------------------------------------------------------------
(* Specification of the refiner: a refiner is built, refine is called      *)

InitRefine ==
    /\ refiner \in { NewRefiner(n, c) : n \in 0..MaxRetries, c \in BOOLEAN }
    /\ refiner_last = [op |-> "none"]
    /\ SearchUnused
    /\ MatcherUnused
    /\ OptimizerUnused
    /\ ThreadsUnused

\* one call of refine_experience; refiner_last keeps the arguments, the
\* behaviour of the AI service, the outcome, and how the call relates to
\* the call before it
RefineExperience ==
    /\ refiner.stats.experiences_refined < MaxRefineCalls
    /\ \E experience \in Experiences, job_context \in {None} \cup { Some(j) : j \in JobContexts },
          refinement_type \in RefinementTypes, ai \in AIBehaviours :
          LET step == refine_experience(refiner, experience, job_context, refinement_type, ai)
              cache_key == RefinerCacheKey(experience, job_context, refinement_type)
              repeats == /\ refiner_last.op = "refine"
                         /\ refiner_last.key = cache_key
                         /\ refiner_last.out.ok
          IN  /\ refiner' = step.refiner
              /\ refiner_last' =
                    [op |-> "refine", key |-> cache_key, experience |-> experience,
                     ai |-> ai, out |-> step.out, cache_hit |-> step.cache_hit,
                     requests |-> step.refiner.requests - refiner.requests,
                     stats_before |-> refiner.stats,
                     repeats |-> repeats,
                     same_as_first |-> repeats /\ step.out = refiner_last.out]
    /\ UNCHANGED <<searchVars, matcherVars, optimizerVars, threadVars>>

NextRefine == RefineExperience

SpecRefine == InitRefine /\ [][NextRefine]_vars

\* C3: with caching enabled, a refine call that repeats the arguments of
\* the successful call before it is a cache hit: it makes no request to the
\* AI service, increments cache_hits and returns an equal object.
C3_SecondCallIsCacheHit ==
    (refiner.enable_caching /\ refiner_last.op = "refine" /\ refiner_last.repeats)
        => /\ refiner_last.cache_hit
           /\ refiner_last.requests = 0
           /\ refiner.stats.cache_hits = refiner_last.stats_before.cache_hits + 1
           /\ refiner_last.same_as_first

\* every request of the last refine call to the AI service failed
AllAttemptsFailed ==
    /\ refiner_last.op = "refine"
    /\ ~refiner_last.cache_hit
    /\ refiner.max_retries >= 1
    /\ refiner_last.ai.fails >= refiner.max_retries

\* C5 (as stated): if the AI call raises on every attempt, refine still
\* returns a RefinedExperience with accomplishments [experience.text] and
\* confidenceScore 0.5.
C5_Original ==
    AllAttemptsFailed
        => /\ refiner_last.out.ok
           /\ refiner_last.out.value.accomplishments = <<refiner_last.experience.text>>
           /\ refiner_last.out.value.confidence_score = Rat(5, 10)

\* C5 (amended): if the AI call raises on every attempt, refine raises
\* ExperienceRefinementError caused by OpenAIIntegrationError after
\* max_retries requests, counts a failed refinement and returns nothing.
C5_Amended ==
    AllAttemptsFailed
        => /\ ~refiner_last.out.ok
           /\ refiner_last.out.error = "ExperienceRefinementError"
           /\ refiner_last.out.cause = "OpenAIIntegrationError"
           /\ refiner_last.requests = refiner.max_retries
           /\ refiner.stats.failed_refinements =
                 refiner_last.stats_before.failed_refinements + 1
           /\ refiner.stats.successful_refinements =
                 refiner_last.stats_before.successful_refinements

C5_Witness ==
    /\ AllAttemptsFailed
    /\ refiner.max_retries = 2
    /\ refiner_last.requests = 2
    /\ ~refiner_last.out.ok

-----------------------------------------------------------------------------
(* ExperienceRefiner.refine_experiences_batch and its helpers              *)

MaxCandidates == 5

\* experiences[:n], for n >= 0
Take_All(s, n) == s

Take(s, n) == IF n >= Len(s) THEN s ELSE SubSeq(s, 1, n)

\* One entry of "refined_experiences" in the answer to a batch prompt
BatchEntry(index, score) ==
    [original_index |-> index,
     refined_accomplishments |-> <<"Engineered Python data pipelines">>,
     key_skills |-> <<"Python">>,
     relevance_score |-> Some(score), confidence_score |-> Some(9)]

\* The dict answered to a batch prompt over n experiences.  A "scored"
\* answer has an entry for each of them; an "unscored" answer has no
\* "refined_experiences" key (ExperienceExtractor.extract_information hands
\* back skills, categories and relevant_jobs only).
BatchAnswer(ai, n) ==
    IF ai.kind = "scored"
    THEN [refined_experiences |-> [i \in 1..n |-> BatchEntry(i - 1, ai.scores[i])]]
    ELSE [refined_experiences |-> <<>>]

\* the first entry of the answer whose original_index is index, if any
FindEntry(entries, index) ==
    LET at == { k \in 1..Len(entries) : entries[k].original_index = index }
    IN  IF at = {} THEN None
        ELSE Some(entries[CHOOSE k \in at : \A other \in at : k <= other])

\* the entry found for an experience, or the dict made up for one the
\* answer has no entry for
BatchResultFor(original_exp, found) ==
    IF found = None
    THEN [refined_accomplishments |-> <<original_exp.text>>,
          key_skills |-> original_exp.skills,
          relevance_score |-> Some(5), confidence_score |-> None]
    ELSE found[1]

\* _parse_batch_refinement_result, from position i of original_experiences on
RECURSIVE ParseBatchFrom(_, _, _, _)
ParseBatchFrom(i, original_experiences, entries, job_context) ==
    IF i > Len(original_experiences) THEN [ok |-> TRUE, error |-> "none", value |-> <<>>]
    ELSE ConsResult(
             parse_refinement_result(
                 original_experiences[i],
                 BatchResultFor(original_experiences[i], FindEntry(entries, i - 1)),
                 job_context),
             ParseBatchFrom(i + 1, original_experiences, entries, job_context))

parse_batch_refinement_result(original_experiences, ai_result, job_context) ==
    ParseBatchFrom(1, original_experiences, ai_result.refined_experiences, job_context)

\* what the fallback loop appends for an experience: what refine_experience
\* returned, or the minimal record when it raised
RefinedOrMinimal(experience, out) ==
    IF out.ok THEN out
    ELSE NewRefinedExperience(
             [original_experience_id |-> experience.id,
              company |-> experience.company,
              accomplishments |-> <<experience.text>>,
              skills |-> experience.skills,
              tools_technologies |-> <<>>,
              relevance_score |-> RInt(0),
              confidence_score |-> Rat(5, 10),
              keywords_matched |-> <<>>,
              refinement_notes |-> "Fallback processing"])

\* a loop that appends nothing for the experience
ConsRefined_SkipHead(after, head, rest) == rest

\* ConsResult for a loop that also changes the refiner: after is the
\* refiner when head was made
ConsRefined(after, head, rest) ==
    IF ~head.ok THEN [refiner |-> after, ok |-> FALSE, error |-> head.error]
    ELSE IF ~rest.ok THEN rest
    ELSE [rest EXCEPT !.value = <<head.value>> \o @]

\* _fallback_individual_refinement: refine_experience for each experience,
\* a minimal record for each one it raises on.  ai_each is how the AI
\* service behaves during each of these calls.
RECURSIVE fallback_individual_refinement(_, _, _, _)
RECURSIVE FallbackAfter(_, _, _, _, _)
fallback_individual_refinement(rf, experiences, job_context, ai_each) ==
    IF experiences = <<>>
    THEN [refiner |-> rf, ok |-> TRUE, error |-> "none", value |-> <<>>]
    ELSE FallbackAfter(Head(experiences), Tail(experiences), job_context, ai_each,
                       refine_experience(rf, Head(experiences), job_context, "general", ai_each))

\* the body of the loop once refine_experience has returned or raised (step)
FallbackAfter(experience, others, job_context, ai_each, step) ==
    ConsRefined(step.refiner,
                RefinedOrMinimal(experience, step.out),
                fallback_individual_refinement(step.refiner, others, job_context, ai_each))

\* the try block of refine_experiences_batch once the batch answer is
\* parsed, and its handler
BatchAfterParse(called, experiences_to_process, job_context, ai_each, refined_experiences) ==
    IF refined_experiences.ok
    THEN [refiner |-> called, ok |-> TRUE, error |-> "none",
          value |-> refined_experiences.value]
    ELSE fallback_individual_refinement(called, experiences_to_process, job_context, ai_each)

\* refine_experiences_batch once _call_openai_refinement has returned or
\* raised (call)
BatchAfterCall(rf, experiences_to_process, job_context, ai_each, call) ==
    BatchAfterParse([rf EXCEPT !.requests = @ + call.requests],
                    experiences_to_process, job_context, ai_each,
                    IF call.ok
                    THEN parse_batch_refinement_result(experiences_to_process, call.result,
                                                       job_context)
                    ELSE call)

\* refine_experiences_batch.  ai_batch is how the AI service behaves during
\* the batch call: it fails the first `fails` requests, then answers.
refine_experiences_batch(rf, experiences, job_context, max_experiences, ai_batch, ai_each) ==
    BatchAfterCall(rf, Take(experiences, max_experiences), job_context, ai_each,
                   call_openai_refinement(
                       rf.max_retries,
                       [fails |-> ai_batch.fails,
                        result |-> BatchAnswer(ai_batch,
                                               Len(Take(experiences, max_experiences)))]))

-----------------------------------------------------------------------------
(* JobMatcher: construction and the refining stage                         *)

MaxKeep == 2

\* JobMatcher(config), then initialize_components() if initialized
NewMatcher(initialized, max_experiences, min_relevance_score, enable_refinement, enable_caching) ==
    [initialized |-> initialized,
     max_experiences |-> max_experiences,
     min_relevance_score |-> min_relevance_score,
     enable_refinement |-> enable_refinement,
     enable_caching |-> enable_caching,
     cache |-> NewCache(enable_caching),
     stats |-> [jobs_processed |-> 0, successful_matches |-> 0, failed_matches |-> 0,
                cache_hits |-> 0, total_experiences_found |-> 0,
                total_experiences_refined |-> 0]]

\* _calculate_basic_relevance
calculate_basic_relevance(experience, job_description) ==
    LET job_keywords == job_description.skills_mentioned \o job_description.extracted_keywords
        matches == Cardinality({ i \in 1..Len(job_keywords) :
                                   Lower(job_keywords[i]) \in WordsIn(experience.text) })
        relevance_score == IF job_keywords # <<>>
                           THEN Rat(matches, Max1(Len(job_keywords)))
                           ELSE RInt(0)
    IN  RMin(relevance_score, RInt(1))

\* _convert_to_refined_experiences
RECURSIVE convert_to_refined_experiences(_, _)
convert_to_refined_experiences(experiences, job_description) ==
    IF experiences = <<>> THEN [ok |-> TRUE, error |-> "none", value |-> <<>>]
    ELSE ConsResult(
             NewRefinedExperience(
                 [original_experience_id |-> Head(experiences).id,
                  company |-> Head(experiences).company,
                  accomplishments |-> <<Head(experiences).text>>,
                  skills |-> Head(experiences).skills,
                  tools_technologies |-> <<>>,
                  relevance_score |-> calculate_basic_relevance(Head(experiences),
                                                                job_description),
                  confidence_score |-> Rat(7, 10),
                  keywords_matched |-> <<>>,
                  refinement_notes |-> "No AI refinement applied"]),
             convert_to_refined_experiences(Tail(experiences), job_description))

\* list.sort(key=lambda x: x.relevance_score, reverse=True): stable, the
\* equal scores keep their order
RECURSIVE InsertByRelevance(_, _)
InsertByRelevance(sortedSeq, x) ==
    IF sortedSeq = <<>> THEN <<x>>
    ELSE IF RLt(Head(sortedSeq).relevance_score, x.relevance_score)
         THEN <<x>> \o sortedSeq
         ELSE <<Head(sortedSeq)>> \o InsertByRelevance(Tail(sortedSeq), x)

RECURSIVE SortByRelevance(_)
SortByRelevance(s) ==
    IF s = <<>> THEN <<>>
    ELSE InsertByRelevance(SortByRelevance(SubSeq(s, 1, Len(s) - 1)), s[Len(s)])

\* what _refine_experiences returns without refinement: the converted
\* experiences, or the error their conversion raised
Unrefined(m, after, converted) ==
    [matcher |-> m, refiner |-> after, ok |-> converted.ok, error |-> converted.error,
     value |-> IF converted.ok THEN converted.value ELSE <<>>]

\* the filter and the sort of _refine_experiences, and the count of what is
\* kept
FilterSorted(m, after, filtered_experiences) ==
    [matcher |-> [m EXCEPT !.stats.total_experiences_refined = @ + Len(filtered_experiences)],
     refiner |-> after, ok |-> TRUE, error |-> "none", value |-> filtered_experiences]

\* _refine_experiences once the batch has returned or something has raised
\* (batch)
FilterRefined(m, experiences, job_description, batch) ==
    IF ~batch.ok
    THEN Unrefined(m, batch.refiner, convert_to_refined_experiences(experiences, job_description))
    ELSE FilterSorted(m, batch.refiner,
             SortByRelevance(
                 SelectSeq(batch.value,
                           LAMBDA refined_exp :
                               RLe(m.min_relevance_score, refined_exp.relevance_score))))

\* _refine_experiences.  rf is the refiner the matcher holds when it is
\* initialized.
refine_experiences(m, rf, experiences, job_description, ai_batch, ai_each) ==
    IF ~m.enable_refinement
    THEN Unrefined(m, rf, convert_to_refined_experiences(experiences, job_description))
    ELSE FilterRefined(
             m, experiences, job_description,
             IF ~m.initialized THEN [refiner |-> rf, ok |-> FALSE, error |-> "JobMatchingError"]
             ELSE refine_experiences_batch(rf, experiences, Some(job_description),
                                           m.max_experiences, ai_batch, ai_each))

-----------------------------------------------------------------------------
(* Specification of the refining stage: a matcher is built, the candidates *)
(* arrive in some order, _refine_experiences is called                     *)

CandidateIds == <<"c1", "c2", "c3", "c4", "c5", "c6">>

\* the scores of the example, in tenths, in the order of arrival
ExampleScores == <<9, 6, 4, 8, 3>>

ScoreValues == { ExampleScores[i] : i \in 1..Len(ExampleScores) }

\* The i-th candidate: Globex and Acme experiences alternate; with
\* short_first the first one has a text under ten characters.
CandidateAt(i, short_first) ==
    IF short_first /\ i = 1
    THEN [id |-> CandidateIds[i], company |-> "Initech", text |-> "Did stuff",
          skills |-> <<>>, categories |-> <<>>]
    ELSE IF i % 2 = 1
    THEN [id |-> CandidateIds[i], company |-> "Globex",
          text |-> "  Led the AWS migration  ",
          skills |-> <<"AWS">>, categories |-> <<>>]
    ELSE [id |-> CandidateIds[i], company |-> "Acme",
          text |-> "Built data pipelines in Python with Docker",
          skills |-> <<"Python", "Docker">>, categories |-> <<"Backend">>]

\* the AI service is down / hands back ExtractorDict at once
AIDown == [fails |-> MaxRetries, result |-> ExtractorDict]
AIUnscored == [fails |-> 0, result |-> ExtractorDict]

\* What a call of _refine_experiences meets: the score the AI service has
\* for each candidate, whether its batch answer carries these scores, how
\* many batch requests fail, how each individual call behaves, and whether
\* the first candidate has a short text.  Every list of scores is tried with
\* a service that answers the batch with scores; the lists of the example
\* are tried with every behaviour; lists of every length up to
\* MaxCandidates are tried with every matcher.
FilterInputs(m) ==
    (IF m.enable_refinement /\ m.initialized
     THEN { [scores |-> s, kind |-> "scored", batch_fails |-> 0, each |-> AIDown,
             short_first |-> FALSE] : s \in SeqsUpTo(ScoreValues, MaxCandidates) }
     ELSE {})
    \cup
    { [scores |-> s, kind |-> k, batch_fails |-> f, each |-> e, short_first |-> sf] :
        s \in {ExampleScores, <<4, 9, 8, 6>>}, k \in {"scored", "unscored"},
        f \in {0, MaxRetries}, e \in {AIDown, AIUnscored}, sf \in BOOLEAN }
    \cup
    { [scores |-> s, kind |-> "scored", batch_fails |-> f, each |-> AIDown, short_first |-> sf] :
        s \in SeqsUpTo({9}, MaxCandidates), f \in {0, MaxRetries}, sf \in BOOLEAN }

InitFilter ==
    /\ matcher \in { NewMatcher(i, n, Tenths(t), r, TRUE) :
                       i \in BOOLEAN, n \in 1..MaxKeep, t \in {3, 5}, r \in BOOLEAN }
    /\ matcher_last = [op |-> "none"]
    /\ refiner = NewRefiner(MaxRetries, TRUE)
    /\ refiner_last = [op |-> "none"]
    /\ SearchUnused
    /\ OptimizerUnused
    /\ ThreadsUnused

\* the candidates of an input, in the order of arrival
Candidates(input) == [i \in 1..Len(input.scores) |-> CandidateAt(i, input.short_first)]

\* the state once the call has returned or raised (step)
RefineReturns(input, experiences, step) ==
    /\ matcher' = step.matcher
    /\ refiner' = step.refiner
    /\ matcher_last' = [op |-> "refine", input |-> input, experiences |-> experiences,
                        ok |-> step.ok, error |-> step.error, out |-> step.value]

\* one call of _refine_experiences
RefineExperiences ==
    /\ matcher_last.op = "none"
    /\ \E input \in FilterInputs(matcher) :
          RefineReturns(
              input, Candidates(input),
              refine_experiences(
                  matcher, refiner, Candidates(input), BackendJob,
                  [fails |-> input.batch_fails, kind |-> input.kind, scores |-> input.scores],
                  input.each))
    /\ UNCHANGED <<searchVars, refiner_last, optimizerVars, threadVars>>

NextFilter == RefineExperiences

SpecFilter == InitFilter /\ [][NextFilter]_vars

\* the final filtering of _refine_experiences ran on refined candidates
FinalFilteringRan ==
    /\ matcher_last.op = "refine"
    /\ matcher.enable_refinement
    /\ matcher.initialized
    /\ ~matcher_last.input.short_first

\* the relevance score refinement gives the i-th candidate: the score of
\* the batch answer, 0.5 where the answer has no entry for it, and when the
\* batch call fails the local score or the 0.0 of the minimal record
CandidateScore(i) ==
    LET input == matcher_last.input
    IN  IF input.batch_fails < refiner.max_retries
        THEN IF input.kind = "scored" THEN Tenths(input.scores[i]) ELSE Rat(5, 10)
        ELSE IF input.each.fails < refiner.max_retries
             THEN calculate_relevance_score(matcher_last.experiences[i], BackendJob)
             ELSE RInt(0)

CandidateIndex(refined_exp) ==
    CHOOSE i \in 1..Len(CandidateIds) : CandidateIds[i] = refined_exp.original_experience_id

\* the candidates among the first n to arrive that reach the minimum score
Eligible(n) ==
    { i \in 1..Len(matcher_last.experiences) :
        i <= n /\ RLe(matcher.min_relevance_score, CandidateScore(i)) }

\* out is made of the candidates in chosen, each once, with its score,
\* highest score first
KeepsExactly(out, chosen) ==
    /\ Len(out) = Cardinality(chosen)
    /\ \A k \in 1..Len(out) :
          /\ CandidateIndex(out[k]) \in chosen
          /\ out[k].relevance_score = CandidateScore(CandidateIndex(out[k]))
    /\ \A k, l \in 1..Len(out) : k # l => CandidateIndex(out[k]) # CandidateIndex(out[l])
    /\ \A k \in 1..(Len(out) - 1) : RLe(out[k + 1].relevance_score, out[k].relevance_score)

RelevanceScores(out) == [k \in 1..Len(out) |-> out[k].relevance_score]

\* the example: scores 0.9, 0.6, 0.4, 0.8, 0.3 in this order of arrival,
\* minRelevanceScore 0.5, maxExperiences 2
FilterExampleCase ==
    /\ FinalFilteringRan
    /\ matcher_last.input.scores = ExampleScores
    /\ matcher_last.input.kind = "scored"
    /\ matcher_last.input.batch_fails = 0
    /\ matcher.min_relevance_score = Tenths(5)
    /\ matcher.max_experiences = 2

-----------------------------------------------------------------------------
(* JobMatcher.match_job_from_url and match_job_from_description            *)

MaxMatchCalls == 2

Urls == {"https://jobs.example/1", "https://jobs.example/2"}

\* What the outside answers during one call: the job page, the query
\* optimizer, the vector backend, the AI service (TRUE: it responds)
Services == [extraction : BOOLEAN, optimizer : BOOLEAN, backend : BOOLEAN, ai : BOOLEAN]

\* _generate_cache_key; equal hashes are taken to mean equal urls
MatcherCacheKey(m, job_url, refinement_type) ==
    <<job_url, refinement_type, m.max_experiences, m.min_relevance_score>>

\* _extract_job_description.  Without components the guard raises
\* JobMatchingError; with them the call goes to extract_and_parse, which
\* JobExtractor does not have, and raises AttributeError before any page is
\* fetched.  Either way the handler raises ContentExtractionError.
extract_job_description(m, job_url) ==
    [ok |-> FALSE, error |-> "ContentExtractionError",
     cause |-> IF ~m.initialized THEN "JobMatchingError" ELSE "AttributeError"]

\* a handler that lets the error of the stage through as it is
MatchFailed_Reraise(m, stages, e) ==
    [matcher |-> [m EXCEPT !.stats = Bump(@, "failed_matches")],
     out |-> [ok |-> FALSE, error |-> e.error, cause |-> e.cause],
     stages |-> stages \o <<"Failed">>,
     cache_hit |-> FALSE]

\* the handler of match_job_from_url: failed_matches is counted and
\* JobMatchingError is raised from the error e
MatchFailed(m, stages, e) ==
    [matcher |-> [m EXCEPT !.stats = Bump(@, "failed_matches")],
     out |-> [ok |-> FALSE, error |-> "JobMatchingError", cause |-> e.error],
     stages |-> stages \o <<"Failed">>,
     cache_hit |-> FALSE]

\* match_job_from_url.  Steps 2 to 5, the store into the cache and the
\* count of successful_matches come after _extract_job_description has
\* returned, which it never does.
match_job_from_url(m, job_url, refinement_type) ==
    LET counted == [m EXCEPT !.stats = Bump(@, "jobs_processed")]
        cache_key == MatcherCacheKey(counted, job_url, refinement_type)
    IN  IF Truthy(counted.cache) /\ CacheHas(counted.cache, cache_key)
        THEN [matcher |-> [counted EXCEPT !.stats = Bump(@, "cache_hits")],
              out |-> [ok |-> TRUE, error |-> "none",
                       value |-> CacheGet(counted.cache, cache_key)],
              stages |-> <<>>,
              cache_hit |-> TRUE]
        ELSE MatchFailed(counted, <<"ExtractingJob">>,
                         extract_job_description(counted, job_url))

\* match_job_from_description.  JobDescription has no raw_content field and
\* requires full_text, so building it raises TypeError; the handler raises
\* JobMatchingError from it and counts nothing.
match_job_from_description(m, job_title, company, job_description_text, refinement_type) ==
    [matcher |-> m,
     out |-> [ok |-> FALSE, error |-> "JobMatchingError", cause |-> "TypeError"],
     stages |-> <<"Failed">>,
     cache_hit |-> FALSE]

-----------------------------------------------------------------------------
(* Specification of the matcher: a matcher is built, its components are    *)
(* initialized at some point, jobs are matched                             *)

InitMatch ==
    /\ matcher \in { NewMatcher(FALSE, n, Tenths(t), r, c) :
                       n \in 1..MaxKeep, t \in {3, 5}, r \in BOOLEAN, c \in BOOLEAN }
    /\ matcher_last = [op |-> "none", calls |-> 0]
    /\ RefinerUnused
    /\ SearchUnused
    /\ OptimizerUnused
    /\ ThreadsUnused

\* initialize_components
InitializeComponents ==
    /\ ~matcher.initialized
    /\ matcher' = [matcher EXCEPT !.initialized = TRUE]
    /\ UNCHANGED <<matcher_last, refinerVars, searchVars, optimizerVars, threadVars>>

\* one call of match_job_from_url; matcher_last keeps the arguments, what
\* the services would answer, the outcome, and how the call relates to the
\* call before it
MatchJobFromUrl ==
    /\ matcher_last.calls < MaxMatchCalls
    /\ \E job_url \in Urls, refinement_type \in RefinementTypes, services \in Services :
          LET step == match_job_from_url(matcher, job_url, refinement_type)
              follows_served ==
                  /\ matcher_last.op = "url"
                  /\ matcher_last.job_url = job_url
                  /\ matcher_last.refinement_type = refinement_type
                  /\ matcher_last.initialized
                  /\ \A name \in DOMAIN matcher_last.services : matcher_last.services[name]
          IN  /\ matcher' = step.matcher
              /\ matcher_last' =
                    [op |-> "url", calls |-> matcher_last.calls + 1,
                     job_url |-> job_url, refinement_type |-> refinement_type,
                     services |-> services, initialized |-> matcher.initialized,
                     out |-> step.out, stages |-> step.stages,
                     cache_hit |-> step.cache_hit, stats_before |-> matcher.stats,
                     follows_served |-> follows_served,
                     same_as_before |-> follows_served /\ step.out = matcher_last.out]
    /\ UNCHANGED <<refinerVars, searchVars, optimizerVars, threadVars>>

\* one call of match_job_from_description
MatchJobFromDescription ==
    /\ matcher_last.calls < MaxMatchCalls
    /\ \E job_description_text \in {"", "We need Python and Docker"},
          refinement_type \in RefinementTypes, services \in Services :
          LET step == match_job_from_description(matcher, "Backend Engineer", "Hooli",
                                                 job_description_text, refinement_type)
          IN  /\ matcher' = step.matcher
              /\ matcher_last' =
                    [op |-> "description", calls |-> matcher_last.calls + 1,
                     job_url |-> "manual_input", refinement_type |-> refinement_type,
                     services |-> services, initialized |-> matcher.initialized,
                     out |-> step.out, stages |-> step.stages,
                     cache_hit |-> step.cache_hit, stats_before |-> matcher.stats,
                     follows_served |-> FALSE, same_as_before |-> FALSE]
    /\ UNCHANGED <<refinerVars, searchVars, optimizerVars, threadVars>>

NextMatch == InitializeComponents \/ MatchJobFromUrl \/ MatchJobFromDescription

SpecMatch == InitMatch /\ [][NextMatch]_vars

AllServicesRespond == \A name \in DOMAIN matcher_last.services : matcher_last.services[name]

PipelineStages ==
    <<"ExtractingJob", "GeneratingQueries", "Searching", "Refining", "Aggregating", "Done">>

\* C1: a matchFromUrl request during which the extraction service, the
\* query optimizer, the vector backend and the AI service all respond
\* passes through ExtractingJob, GeneratingQueries, Searching, Refining and
\* Aggregating, ends in Done with a result, increments successful_matches,
\* and does not end in Failed.
C1_AllServicesRespondEndsDone ==
    (matcher_last.op = "url" /\ matcher_last.initialized /\ AllServicesRespond
        /\ ~matcher_last.cache_hit)
        => /\ matcher_last.stages = PipelineStages
           /\ matcher_last.out.ok
           /\ matcher.stats.successful_matches =
                 matcher_last.stats_before.successful_matches + 1
           /\ matcher.stats.failed_matches = matcher_last.stats_before.failed_matches

C4_LaterCallIsCacheHit ==
    (matcher.enable_caching /\ matcher_last.op = "url" /\ matcher_last.follows_served)
        => /\ matcher_last.cache_hit
           /\ matcher_last.stages = <<>>
           /\ matcher_last.same_as_before
           /\ matcher.stats.cache_hits = matcher_last.stats_before.cache_hits + 1

-----------------------------------------------------------------------------
(* SearchQueryOptimizer (core/search_optimizer.py)                         *)
(*                                                                         *)
(* A text is modelled as the sequence of its space-separated words, and    *)
(* Text renders it as the Python string; a skill or keyword is one word.   *)
(* ' '.join(list) is the concatenation of the word sequences, str.lower()  *)
(* lower-cases each word.  The regular expressions of the source are       *)
(* tables over the texts of the model.  The description, original_text,    *)
(* experience_indicator, industry_terms and keywords entries of a query    *)
(* dict are never read back and are left out.                              *)
(* Priorities are exact rationals: the float 0.8 - 1 * 0.1 of the source   *)
(* is a hair above 0.7 and an exact 0.7 here; the responsibility query     *)
(* that carries it is appended before the 0.7 queries, so the stable sort  *)
(* orders the two cases alike.                                             *)

MaxShortSkills == 3
MaxLongSkills == 7
MaxReturned == 3

RECURSIVE Text(_)
Text(words) ==
    IF words = <<>> THEN ""
    ELSE IF Len(words) = 1 THEN words[1]
    ELSE words[1] \o " " \o Text(Tail(words))

\* ' '.join(texts) for a list of texts
RECURSIVE JoinTexts(_)
JoinTexts(texts) ==
    IF texts = <<>> THEN <<>> ELSE texts[1] \o JoinTexts(Tail(texts))

\* ' '.join(words) for a list of one-word strings
JoinWords(words) == words

\* text.lower()
LowerText(words) == [i \in 1..Len(words) |-> Lower(words[i])]

ShortSkillWords == {"python", "Python", "docker"}

SkillCycle == <<"Python", "docker", "kubernetes", "AWS", "java", "terraform", "react">>

LongSkills(n) == [i \in 1..n |-> SkillCycle[((i - 1) % Len(SkillCycle)) + 1]]

ExampleSkills == <<"python", "docker", "kubernetes">>

SkillLists ==
    SeqsUpTo(ShortSkillWords, MaxShortSkills)
        \cup { LongSkills(n) : n \in 4..MaxLongSkills }
        \cup { ExampleSkills }

DevelopServices == <<"Develop", "backend", "services,", "design", "APIs">>
LeadTeam == <<"Lead", "team">>
WorkWithProduct == <<"Work", "with", "product", "to", "improve", "reliability">>

ResponsibilityLists ==
    { <<>>, <<DevelopServices>>, <<LeadTeam, DevelopServices>>,
      <<WorkWithProduct, DevelopServices, DevelopServices, LeadTeam>> }

SeniorPosting ==
    <<"Senior", "Python", "engineer", "with", "5+", "years", "of",
      "experience", "in", "docker", "and", "python">>

FullTexts == { <<>>, SeniorPosting }

KeywordLists ==
    { <<>>, <<"python", "docker", "microservices">>, <<"REST", "", "agile">> }

\* company, title and summary of a posting
JobHeaders ==
    { [company |-> <<"Initech">>, title |-> <<"Engineer">>, summary |-> <<>>],
      [company |-> <<"Acme", "Bank">>, title |-> <<"Backend", "Engineer">>,
       summary |-> <<"Payment", "platform">>] }

OptimizerJobs ==
    { [title |-> h.title, company |-> h.company, summary |-> h.summary,
       full_text |-> t, skills_mentioned |-> s, responsibilities |-> r,
       extracted_keywords |-> k] :
        h \in JobHeaders, t \in FullTexts, s \in SkillLists,
        r \in ResponsibilityLists, k \in KeywordLists }

\* self.skill_categories, in the order of the dict; the entries that no
\* word of the model belongs to are left out of the sets
skill_categories ==
    << [category |-> "programming_languages", skills |-> {"python", "java"}],
       [category |-> "web_frameworks", skills |-> {"react"}],
       [category |-> "databases", skills |-> {}],
       [category |-> "cloud_platforms", skills |-> {"aws"}],
       [category |-> "devops_tools", skills |-> {"docker", "kubernetes", "terraform"}],
       [category |-> "data_science", skills |-> {}] >>

InSomeCategory(word_lower) ==
    \E i \in 1..Len(skill_categories) : word_lower \in skill_categories[i].skills

\* the first category, in dict order, that holds the lower-cased skill
CategoryOf(skill) ==
    LET hits == { i \in 1..Len(skill_categories) :
                    Lower(skill) \in skill_categories[i].skills }
    IN  skill_categories[CHOOSE i \in hits : \A j \in hits : i <= j].category

\* grouped[category].append(skill), grouped being a dict in insertion order
AddToGroup(grouped, category, skill) ==
    IF \E i \in 1..Len(grouped) : grouped[i].category = category
    THEN [i \in 1..Len(grouped) |->
            IF grouped[i].category = category
            THEN [grouped[i] EXCEPT !.skills = Append(@, skill)]
            ELSE grouped[i]]
    ELSE Append(grouped, [category |-> category, skills |-> <<skill>>])

RECURSIVE GroupInto(_, _)
GroupInto(grouped, skills) ==
    IF skills = <<>> THEN grouped
    ELSE GroupInto(IF InSomeCategory(Lower(skills[1]))
                   THEN AddToGroup(grouped, CategoryOf(skills[1]), skills[1])
                   ELSE grouped,
                   Tail(skills))

group_skills_by_category(skills) == GroupInto(<<>>, skills)

FirstN(s, n) == IF n >= Len(s) THEN s ELSE SubSeq(s, 1, n)

\* Strategy 1 without the [:5] slice
generate_primary_skills_query_AllSkills(job_desc) ==
    IF job_desc.skills_mentioned = <<>> THEN None
    ELSE Some([query |-> JoinWords(job_desc.skills_mentioned),
               type |-> "primary_skills",
               priority |-> RInt(1),
               skills_count |-> Len(job_desc.skills_mentioned)])

generate_primary_skills_query(job_desc) ==
    IF job_desc.skills_mentioned = <<>> THEN None
    ELSE LET primary_skills == FirstN(job_desc.skills_mentioned, 5)
         IN  Some([query |-> JoinWords(primary_skills),
                   type |-> "primary_skills",
                   priority |-> RInt(1),
                   skills_count |-> Len(primary_skills)])

RECURSIVE TechnologyQueriesOf(_)
TechnologyQueriesOf(skill_groups) ==
    IF skill_groups = <<>> THEN <<>>
    ELSE LET skills == skill_groups[1].skills
         IN  (IF Len(skills) >= 2
              THEN << [query |-> JoinWords(FirstN(skills, 3)),
                       type |-> "technology_stack",
                       category |-> skill_groups[1].category,
                       priority |-> Tenths(9),
                       skills_count |-> Len(skills)] >>
              ELSE <<>>)
             \o TechnologyQueriesOf(Tail(skill_groups))

generate_technology_queries(job_desc) ==
    TechnologyQueriesOf(group_skills_by_category(job_desc.skills_mentioned))

\* the matches of the four action patterns in a responsibility text, in the
\* order the loops find them, each stripped, its whitespace runs collapsed
\* and cut to 50 characters
ActionMatches(text) ==
    CASE text = DevelopServices ->
            << <<"Develop", "backend", "services">>, <<"design", "APIs">> >>
      [] text = LeadTeam -> << <<"Lead", "team">> >>
      [] text = WorkWithProduct ->
            << <<"Work", "with", "product", "to", "improve", "reliability">>,
               <<"improve", "reliability">> >>
      [] OTHER -> <<>>

RECURSIVE LongerThan(_, _)
LongerThan(texts, n) ==
    IF texts = <<>> THEN <<>>
    ELSE (IF Len(Text(texts[1])) > n THEN <<texts[1]>> ELSE <<>>)
         \o LongerThan(Tail(texts), n)

extract_action_phrases(text) == FirstN(LongerThan(ActionMatches(text), 10), 5)

\* the loop of _generate_responsibility_queries from index i on
RECURSIVE ResponsibilityQueriesFrom(_, _)
ResponsibilityQueriesFrom(responsibilities, i) ==
    IF responsibilities = <<>> THEN <<>>
    ELSE LET key_phrases == extract_action_phrases(responsibilities[1])
         IN  (IF key_phrases # <<>>
              THEN << [query |-> JoinTexts(FirstN(key_phrases, 4)),
                       type |-> "responsibility",
                       priority |-> Tenths(8 - i)] >>
              ELSE <<>>)
             \o ResponsibilityQueriesFrom(Tail(responsibilities), i + 1)

generate_responsibility_queries(job_desc) ==
    ResponsibilityQueriesFrom(FirstN(job_desc.responsibilities, 3), 0)

\* re.findall of the three experience patterns over the text, pattern by
\* pattern, every match lower-cased
ExperienceMatches(text) ==
    CASE text = SeniorPosting ->
            << <<"5+", "years", "of", "experience">>, <<"senior">> >>
      [] OTHER -> <<>>

\* the first occurrence of every text, in order
RECURSIVE Unique(_, _)
Unique(texts, seen) ==
    IF texts = <<>> THEN <<>>
    ELSE IF texts[1] \in seen THEN Unique(Tail(texts), seen)
    ELSE <<texts[1]>> \o Unique(Tail(texts), seen \cup {texts[1]})

extract_experience_indicators(text) ==
    FirstN(Unique(LongerThan(ExperienceMatches(text), 2), {}), 3)

RECURSIVE ExperienceLevelQueriesOf(_, _)
ExperienceLevelQueriesOf(indicators, top_skills) ==
    IF indicators = <<>> THEN <<>>
    ELSE (IF top_skills # <<>>
          THEN << [query |-> indicators[1] \o JoinWords(top_skills),
                   type |-> "experience_level",
                   priority |-> Tenths(7)] >>
          ELSE <<>>)
         \o ExperienceLevelQueriesOf(Tail(indicators), top_skills)

generate_experience_level_queries(job_desc) ==
    ExperienceLevelQueriesOf(
        FirstN(extract_experience_indicators(job_desc.full_text), 2),
        FirstN(job_desc.skills_mentioned, 3))

\* industry_keywords, in the order of the dict
industry_keywords ==
    << [industry |-> "fintech",
        keywords |-> {"finance", "fintech", "banking", "payment", "trading", "investment"}],
       [industry |-> "healthcare",
        keywords |-> {"health", "medical", "healthcare", "clinical", "patient", "pharma"}],
       [industry |-> "ecommerce",
        keywords |-> {"ecommerce", "retail", "marketplace", "shopping", "commerce"}],
       [industry |-> "gaming",
        keywords |-> {"gaming", "game", "entertainment", "mobile", "console"}],
       [industry |-> "enterprise",
        keywords |-> {"enterprise", "b2b", "saas", "platform", "business"}],
       [industry |-> "media",
        keywords |-> {"media", "content", "publishing", "streaming", "video"}],
       [industry |-> "security",
        keywords |-> {"security", "cybersecurity", "privacy", "compliance", "audit"}] >>

\* the industry keywords that are substrings of
\* f"{company} {title} {summary}".lower()
IndustryKeywordsIn(job_desc) ==
    IF job_desc.summary = <<"Payment", "platform">>
    THEN {"payment", "platform"}
    ELSE {}

RECURSIVE DetectedIndustries(_, _)
DetectedIndustries(industries, found) ==
    IF industries = <<>> THEN <<>>
    ELSE (IF industries[1].keywords \cap found # {}
          THEN <<industries[1].industry>> ELSE <<>>)
         \o DetectedIndustries(Tail(industries), found)

infer_industry_context(job_desc) ==
    FirstN(DetectedIndustries(industry_keywords, IndustryKeywordsIn(job_desc)), 2)

generate_industry_queries(job_desc) ==
    LET industry_terms == infer_industry_context(job_desc)
        top_skills == FirstN(job_desc.skills_mentioned, 3)
    IN  IF industry_terms # <<>> /\ top_skills # <<>>
        THEN << [query |-> JoinWords(industry_terms) \o JoinWords(top_skills),
                 type |-> "industry_context",
                 priority |-> Tenths(6)] >>
        ELSE <<>>

\* text_lower.count(keyword_lower)
CountIn(full_text, keyword_lower) ==
    Cardinality({ i \in 1..Len(full_text) : Lower(full_text[i]) = keyword_lower })

\* re.match of one of the three technical patterns at the start of the term
MatchesTechnicalPattern(term) == term \in {"REST", "AWS"}

is_technical_term(term) ==
    InSomeCategory(Lower(term)) \/ MatchesTechnicalPattern(term)

KeywordScore(keyword, full_text) ==
    RAdd(RAdd(RAdd(Tenths(CountIn(full_text, Lower(keyword))),
                   IF is_technical_term(keyword) THEN Tenths(5) ELSE RInt(0)),
              IF InSomeCategory(Lower(keyword)) THEN Tenths(3) ELSE RInt(0)),
         IF Len(keyword) > 6 THEN Tenths(2) ELSE RInt(0))

\* sorted(..., reverse=True) is stable: an entry goes after every entry whose
\* key is not lower than its own
RECURSIVE InsertByKey(_, _)
InsertByKey(sorted, entry) ==
    IF sorted = <<>> THEN <<entry>>
    ELSE IF RLt(sorted[1].key, entry.key) THEN <<entry>> \o sorted
    ELSE <<sorted[1]>> \o InsertByKey(Tail(sorted), entry)

RECURSIVE SortByKeyDesc(_, _)
SortByKeyDesc(sorted, entries) ==
    IF entries = <<>> THEN sorted
    ELSE SortByKeyDesc(InsertByKey(sorted, entries[1]), Tail(entries))

RECURSIVE KeywordEntries(_, _)
KeywordEntries(keywords, full_text) ==
    IF keywords = <<>> THEN <<>>
    ELSE (IF keywords[1] = "" THEN <<>>
          ELSE << [value |-> keywords[1],
                   key |-> KeywordScore(keywords[1], full_text)] >>)
         \o KeywordEntries(Tail(keywords), full_text)

score_keywords(keywords, full_text) ==
    SortByKeyDesc(<<>>, KeywordEntries(keywords, full_text))

Values(entries) == [i \in 1..Len(entries) |-> entries[i].value]

\* the loop `for i in range(0, len(top_keywords), 3)`
RECURSIVE KeywordGroups(_)
KeywordGroups(top_keywords) ==
    IF top_keywords = <<>> THEN <<>>
    ELSE LET keyword_group == FirstN(top_keywords, 3)
         IN  (IF Len(keyword_group) >= 2
              THEN << [query |-> JoinWords(keyword_group),
                       type |-> "keyword_combination",
                       priority |-> Tenths(5)] >>
              ELSE <<>>)
             \o KeywordGroups(SubSeq(top_keywords, Len(keyword_group) + 1,
                                     Len(top_keywords)))

generate_keyword_queries(job_desc) ==
    LET all_keywords == job_desc.extracted_keywords \o job_desc.skills_mentioned
        top_keywords == Values(FirstN(score_keywords(all_keywords, job_desc.full_text), 6))
    IN  IF Len(top_keywords) >= 3 THEN KeywordGroups(top_keywords) ELSE <<>>

\* the de-duplication loop over the sorted queries
RECURSIVE UniqueQueries(_, _, _, _)
UniqueQueries(sorted_queries, unique_queries, seen_queries, max_queries) ==
    IF sorted_queries = <<>> THEN unique_queries
    ELSE LET query_text == LowerText(sorted_queries[1].query)
         IN  IF query_text \notin seen_queries
             THEN IF Len(unique_queries) + 1 >= max_queries
                  THEN Append(unique_queries, sorted_queries[1])
                  ELSE UniqueQueries(Tail(sorted_queries),
                                     Append(unique_queries, sorted_queries[1]),
                                     seen_queries \cup {query_text}, max_queries)
             ELSE UniqueQueries(Tail(sorted_queries), unique_queries,
                                seen_queries, max_queries)

WithKeys(qs) == [i \in 1..Len(qs) |-> [value |-> qs[i], key |-> qs[i].priority]]

\* a ranking that leaves the priority of the lower ranks as it is
rank_and_filter_queries_NoPenalty(qs, max_queries) ==
    IF qs = <<>> THEN <<>>
    ELSE LET unique_queries ==
                UniqueQueries(Values(SortByKeyDesc(<<>>, WithKeys(qs))), <<>>, {}, max_queries)
         IN  [i \in 1..Len(unique_queries) |->
                unique_queries[i] @@
                [rank |-> i, final_priority |-> unique_queries[i].priority]]

\* _rank_and_filter_queries: the stable sort by priority, the loop that
\* drops repeated texts and stops at max_queries, then rank = i + 1 and
\* final_priority = priority * (1 - i * 0.05) for the 0-based position i
rank_and_filter_queries(qs, max_queries) ==
    IF qs = <<>> THEN <<>>
    ELSE LET unique_queries ==
                UniqueQueries(Values(SortByKeyDesc(<<>>, WithKeys(qs))), <<>>, {}, max_queries)
         IN  [i \in 1..Len(unique_queries) |->
                unique_queries[i] @@
                [rank |-> i,
                 final_priority |-> RMul(unique_queries[i].priority, Rat(100 - 5 * (i - 1), 100))]]

\* the list `queries` of generate_search_queries before it is ranked
candidate_queries(enable_diversity, job_description) ==
    LET primary_query == generate_primary_skills_query(job_description)
    IN  (IF primary_query # None THEN <<primary_query[1]>> ELSE <<>>)
        \o generate_technology_queries(job_description)
        \o generate_responsibility_queries(job_description)
        \o (IF enable_diversity
            THEN generate_experience_level_queries(job_description)
            ELSE <<>>)
        \o generate_industry_queries(job_description)
        \o generate_keyword_queries(job_description)

generate_search_queries(enable_diversity, job_description, max_queries) ==
    rank_and_filter_queries(candidate_queries(enable_diversity, job_description),
                            max_queries)

-----------------------------------------------------------------------------
(* Specification of the optimizer: an optimizer is built, a posting and a  *)
(* max_queries are chosen, generate_search_queries is called once          *)

\* the values of max_queries: 0 .. MaxReturned and the default 8
MaxQueriesValues == 0..MaxReturned \cup {8}

InitOptimize ==
    /\ optimizer \in { [enable_diversity |-> d] : d \in BOOLEAN }
    /\ optimizer_call \in { [pc |-> "call", job_description |-> j, max_queries |-> n] :
                              j \in OptimizerJobs, n \in MaxQueriesValues }
    /\ SearchUnused
    /\ RefinerUnused
    /\ MatcherUnused
    /\ ThreadsUnused

GenerateSearchQueries ==
    /\ optimizer_call.pc = "call"
    /\ optimizer_call' =
          [pc |-> "returned",
           job_description |-> optimizer_call.job_description,
           max_queries |-> optimizer_call.max_queries,
           out |-> generate_search_queries(optimizer.enable_diversity,
                                           optimizer_call.job_description,
                                           optimizer_call.max_queries)]
    /\ UNCHANGED <<optimizer, searchVars, refinerVars, matcherVars, threadVars>>

NextOptimize == GenerateSearchQueries

SpecOptimize == InitOptimize /\ [][NextOptimize]_vars

-----------------------------------------------------------------------------
(* Claims about the optimizer                                              *)

OptimizerReturned == optimizer_call.pc = "returned"

SkillsMentioned == optimizer_call.job_description.skills_mentioned

\* the first min(5, N) of the N skills, joined by single spaces
FirstFiveSkillsText ==
    Text([i \in 1..Min2(5, Len(SkillsMentioned)) |-> SkillsMentioned[i]])

\* C11: for a posting with at least one skill, the first (rank 1) query that
\* generate_search_queries returns is the primary-skills query: type
\* primary_skills, priority 1.0, and as text the first min(5, N) skills
\* joined by single spaces; for the skills [python, docker, kubernetes] and
\* max_queries = 8 that text is "python docker kubernetes".
C11_PrimarySkillsQueryFirst ==
    (OptimizerReturned /\ Len(SkillsMentioned) >= 1)
        => /\ optimizer_call.out # <<>>
           /\ optimizer_call.out[1].type = "primary_skills"
           /\ optimizer_call.out[1].rank = 1
           /\ optimizer_call.out[1].priority = <<1, 1>>
           /\ Text(optimizer_call.out[1].query) = FirstFiveSkillsText
           /\ (SkillsMentioned = <<"python", "docker", "kubernetes">>
                  /\ optimizer_call.max_queries = 8)
                => Text(optimizer_call.out[1].query) = "python docker kubernetes"

\* a posting with seven skills, of which the first five make the first query
C11_Witness ==
    /\ OptimizerReturned
    /\ Len(SkillsMentioned) = 7
    /\ Len(optimizer_call.out) > 1
    /\ optimizer_call.out[1].type = "primary_skills"
    /\ Text(optimizer_call.out[1].query) = "Python docker kubernetes AWS java"

CandidateQueries ==
    candidate_queries(optimizer.enable_diversity, optimizer_call.job_description)

\* the priorities never increase along the list
SortedByPriority(out) ==
    \A i \in 1..Len(out) : \A j \in 1..Len(out) :
        i < j => RLe(out[j].priority, out[i].priority)

\* no two queries of the list have the same text ignoring letter case
NoTwoEqualIgnoringCase(out) ==
    \A i \in 1..Len(out) : \A j \in 1..Len(out) :
        LowerText(out[i].query) = LowerText(out[j].query) => i = j

\* each query of the list has the highest priority of the candidates with
\* its text
KeepsHighestPriority(out, candidates) ==
    \A i \in 1..Len(out) : \A k \in 1..Len(candidates) :
        LowerText(candidates[k].query) = LowerText(out[i].query)
            => RLe(candidates[k].priority, out[i].priority)

\* C12 (sorting and de-duplication): the returned list is sorted by priority
\* in non-increasing order and holds no two queries with the same text
\* ignoring case, the kept one being the highest-priority occurrence.
C12_SortedAndUnique ==
    OptimizerReturned
        => /\ SortedByPriority(optimizer_call.out)
           /\ NoTwoEqualIgnoringCase(optimizer_call.out)
           /\ KeepsHighestPriority(optimizer_call.out, CandidateQueries)

\* C12 (as stated): for every posting and every non-negative max_queries the
\* returned list is sorted by priority in non-increasing order, holds no two
\* queries equal ignoring case, and has at most max_queries elements.
C12_Original ==
    (OptimizerReturned /\ optimizer_call.max_queries >= 0)
        => /\ SortedByPriority(optimizer_call.out)
           /\ NoTwoEqualIgnoringCase(optimizer_call.out)
           /\ KeepsHighestPriority(optimizer_call.out, CandidateQueries)
           /\ Len(optimizer_call.out) <= optimizer_call.max_queries

\* what the code does: at most max(max_queries, 1) elements
C12_AtMostMaxOrOne ==
    OptimizerReturned
        => Len(optimizer_call.out) <=
              (IF optimizer_call.max_queries < 1 THEN 1 ELSE optimizer_call.max_queries)

\* a call that dropped a duplicate differing in case and was cut short
C12_Witness ==
    /\ OptimizerReturned
    /\ optimizer_call.max_queries = 2
    /\ Len(optimizer_call.out) = 2
    /\ \E k \in 1..Len(CandidateQueries) :
          /\ LowerText(CandidateQueries[k].query) = LowerText(optimizer_call.out[1].query)
          /\ CandidateQueries[k].query # optimizer_call.out[1].query

-----------------------------------------------------------------------------
(* JobMatcher: the stages after the extraction                             *)
(*                                                                         *)
(* _generate_search_queries, _search_relevant_experiences and              *)
(* _create_job_match_result, each called on its own: match_job_from_url    *)
(* never gets to them (see extract_job_description).                       *)

\* the fallback of _generate_search_queries
FallbackQueries(job_description) ==
    << [query |-> JoinWords(FirstN(job_description.skills_mentioned, 5)),
        strategy |-> "fallback",
        priority |-> RInt(1)] >>

\* _generate_search_queries.  initialize_components builds the optimizer as
\* SearchQueryOptimizer(self.config): enable_diversity is the config object,
\* which is truthy; max_queries is left at its default 8.  The fallback is
\* taken when the guard raises; generate_search_queries itself raises for
\* no posting.
matcher_generate_search_queries(m, job_description) ==
    IF ~m.initialized
    THEN FallbackQueries(job_description)
    ELSE generate_search_queries(TRUE, job_description, 8)

\* [q["query"] for q in search_queries if q.get("query")]
RECURSIVE QueryStrings(_)
QueryStrings(search_queries) ==
    IF search_queries = <<>> THEN <<>>
    ELSE (IF Text(search_queries[1].query) # "" THEN <<Text(search_queries[1].query)>>
          ELSE <<>>)
         \o QueryStrings(Tail(search_queries))

\* _search_relevant_experiences.  Its handler turns every error into
\* DatabaseError.  With the components initialized and a query string to
\* send, the call goes to self.experience_processor.database, which is None:
\* initialize_components builds the ExperienceProcessor and never calls its
\* initialize(), the only place that sets database.
search_relevant_experiences(m, search_queries) ==
    [matcher |-> m, ok |-> FALSE, error |-> "DatabaseError",
     cause |-> IF ~m.initialized THEN "JobMatchingError"
               ELSE IF QueryStrings(search_queries) = <<>> THEN "DatabaseError"
               ELSE "AttributeError"]

\* _create_job_match_result.  The skills, the tools and the averages are
\* computed without error; JobMatchResult is then called with the keywords
\* job_description, refined_experiences, overall_match_score,
\* search_queries_used and matching_summary, none of which is a field of the
\* dataclass, and raises TypeError, which the handler turns into
\* JobMatchingError.
create_job_match_result(job_description, refined_experiences, search_queries) ==
    [ok |-> FALSE, error |-> "JobMatchingError", cause |-> "TypeError"]

\* the postings of the stage calls
StageJobs ==
    { j \in OptimizerJobs :
        /\ j.full_text = <<>>
        /\ j.company = <<"Initech">>
        /\ Len(j.responsibilities) <= 1
        /\ j.skills_mentioned \in {<<>>, <<"Python">>, ExampleSkills, LongSkills(MaxLongSkills)} }

\* what a call of _refine_experiences meets (see FilterInputs)
StageInputs ==
    { [scores |-> s, kind |-> "scored", batch_fails |-> f, each |-> e, short_first |-> sf] :
        s \in {<<>>, <<9, 6>>}, f \in {0, MaxRetries}, e \in {AIDown, AIUnscored},
        sf \in BOOLEAN }

InitStages ==
    /\ matcher \in { NewMatcher(i, n, Tenths(5), r, TRUE) :
                       i \in BOOLEAN, n \in 1..MaxKeep, r \in BOOLEAN }
    /\ matcher_last = [op |-> "none"]
    /\ refiner = NewRefiner(MaxRetries, TRUE)
    /\ refiner_last = [op |-> "none"]
    /\ SearchUnused
    /\ OptimizerUnused
    /\ ThreadsUnused

\* one call of _generate_search_queries; optimizer_out is what the optimizer
\* returned to it, None when there is no optimizer
StageGenerateQueries ==
    /\ matcher_last.op = "none"
    /\ \E job_description \in StageJobs :
          matcher_last' =
              [op |-> "generate", job_description |-> job_description,
               optimizer_out |-> IF matcher.initialized
                                 THEN Some(generate_search_queries(TRUE, job_description, 8))
                                 ELSE None,
               out |-> matcher_generate_search_queries(matcher, job_description)]
    /\ UNCHANGED <<matcher, refiner, refiner_last, searchVars, optimizerVars, threadVars>>

\* the state once _search_relevant_experiences has raised (step)
SearchReturns(search_queries, step) ==
    /\ matcher' = step.matcher
    /\ matcher_last' = [op |-> "search", job_description |-> matcher_last.job_description,
                        optimizer_out |-> matcher_last.optimizer_out,
                        search_queries |-> search_queries,
                        ok |-> step.ok, error |-> step.error, cause |-> step.cause]

\* one call of _search_relevant_experiences with the queries generated
StageSearch ==
    /\ matcher_last.op = "generate"
    /\ SearchReturns(matcher_last.out,
                     search_relevant_experiences(matcher, matcher_last.out))
    /\ UNCHANGED <<refiner, refiner_last, searchVars, optimizerVars, threadVars>>

\* one call of _refine_experiences
StageRefine ==
    /\ matcher_last.op = "none"
    /\ \E input \in StageInputs :
          RefineReturns(
              input, Candidates(input),
              refine_experiences(
                  matcher, refiner, Candidates(input), BackendJob,
                  [fails |-> input.batch_fails, kind |-> input.kind, scores |-> input.scores],
                  input.each))
    /\ UNCHANGED <<searchVars, refiner_last, optimizerVars, threadVars>>

\* one call of _create_job_match_result with what _refine_experiences
\* returned
StageCreateResult ==
    /\ matcher_last.op = "refine"
    /\ matcher_last.ok
    /\ matcher_last' =
          [op |-> "create", input |-> matcher_last.input,
           experiences |-> matcher_last.experiences,
           refined_experiences |-> matcher_last.out,
           out |-> create_job_match_result(BackendJob, matcher_last.out, <<>>)]
    /\ UNCHANGED <<matcher, refiner, refiner_last, searchVars, optimizerVars, threadVars>>

NextStages == StageGenerateQueries \/ StageSearch \/ StageRefine \/ StageCreateResult

SpecStages == InitStages /\ [][NextStages]_vars

\* C16: when the optimizer yields no queries at all for a posting,
\* _generate_search_queries hands on the single fallback query built from
\* the first 5 skills_mentioned (the empty string if there are none), and
\* the search stage is not failed for lack of queries.
C16_FallbackWhenNoQueries ==
    /\ (matcher_last.op \in {"generate", "search"}
           /\ matcher_last.optimizer_out = Some(<<>>))
         => LET handed == IF matcher_last.op = "generate" THEN matcher_last.out
                          ELSE matcher_last.search_queries
            IN  /\ Len(handed) = 1
                /\ Text(handed[1].query) =
                      Text([i \in 1..Min2(5, Len(matcher_last.job_description.skills_mentioned)) |->
                               matcher_last.job_description.skills_mentioned[i]])
    /\ (matcher_last.op = "search" /\ matcher_last.optimizer_out = Some(<<>>))
         => ~(matcher_last.error = "DatabaseError" /\ matcher_last.cause = "DatabaseError")

\* the optimizer returned the empty list and the search stage was run on it
C16_Witness ==
    /\ matcher_last.op = "search"
    /\ matcher.initialized
    /\ matcher_last.optimizer_out = Some(<<>>)
    /\ matcher_last.search_queries = <<>>
    /\ matcher_last.cause = "DatabaseError"

\* the refining stage did not refine: refinement is disabled, or the stage
\* failed for want of a refiner
RanUnrefined == ~matcher.enable_refinement \/ ~matcher.initialized

\* C14: if the refining stage fails or refinement is disabled, the request
\* does not fail: every found experience is converted to a RefinedExperience
\* with accomplishments [experience.text], the local heuristic relevance
\* score, confidence 0.7 and the notes "No AI refinement applied", and the
\* run goes on through the aggregation to Done.
C14_UnrefinedFallbackEndsDone ==
    /\ (matcher_last.op = "refine" /\ RanUnrefined)
         => /\ matcher_last.ok
            /\ Len(matcher_last.out) = Len(matcher_last.experiences)
            /\ \A i \in 1..Len(matcher_last.out) :
                  /\ matcher_last.out[i].accomplishments = <<matcher_last.experiences[i].text>>
                  /\ matcher_last.out[i].relevance_score =
                        calculate_basic_relevance(matcher_last.experiences[i], BackendJob)
                  /\ matcher_last.out[i].confidence_score = <<7, 10>>
                  /\ matcher_last.out[i].refinement_notes = "No AI refinement applied"
    /\ (matcher_last.op = "create" /\ RanUnrefined) => matcher_last.out.ok

\* refinement is disabled, two experiences were converted, and the
\* aggregation was run on them
C14_Witness ==
    /\ matcher_last.op = "create"
    /\ ~matcher.enable_refinement
    /\ Len(matcher_last.refined_experiences) = 2
    /\ matcher_last.refined_experiences[1].refinement_notes = "No AI refinement applied"
    /\ matcher_last.refined_experiences[1].confidence_score = <<7, 10>>
    /\ matcher_last.out.error = "JobMatchingError"

\* C15: if the search stage found no experience, the request still ends in
\* Done, with a JobMatchResult whose refined_experiences list is empty and
\* whose overall match score is 0; it does not fail.
C15_EmptySearchEndsDone ==
    (matcher_last.op = "create" /\ matcher_last.experiences = <<>>)
        => /\ matcher_last.out.ok
           /\ matcher_last.out.value.refined_experiences = <<>>
           /\ matcher_last.out.value.overall_match_score = <<0, 1>>

\* no experience was found, none was refined, and the aggregation was run
C15_Witness ==
    /\ matcher_last.op = "create"
    /\ matcher_last.experiences = <<>>
    /\ matcher_last.refined_experiences = <<>>
    /\ matcher_last.out.error = "JobMatchingError"
    /\ matcher_last.out.cause = "TypeError"

-----------------------------------------------------------------------------
(* ExperienceRefiner._call_openai_refinement, request by request           *)
(*                                                                         *)
(* Each attempt of the loop calls ExperienceExtractor.extract_information, *)
(* whose _extract_with_retry is wrapped by tenacity: a request that fails  *)
(* with OpenAIAPIError or OpenAIRateLimitError is sent again, up to three  *)
(* requests per attempt.  The waits between the requests are not          *)
(* modelled.  refiner_last is the state of the call: where it is, the      *)
(* index of the attempt, the requests of the attempt, and the outcome of   *)
(* every request sent to the service so far.                               *)

\* How the service answers one request: a dict, a failure that
\* _extract_with_retry raises as OpenAIAPIError or OpenAIRateLimitError, or
\* a failure that it raises as OpenAIExtractionError
RequestOutcomes == {"answer", "transient", "malformed"}

\* stop_after_attempt that never stops
stop_after_attempt_Never(tries) == FALSE

\* stop=stop_after_attempt(3)
stop_after_attempt(tries) == tries >= 3

\* retry=retry_if_exception_type((OpenAIAPIError, OpenAIRateLimitError))
retry_if_exception_type(outcome) == outcome = "transient"

InitRetry ==
    /\ refiner \in { NewRefiner(n, c) : n \in 0..MaxRetries, c \in BOOLEAN }
    /\ refiner_last = [op |-> "call_openai", pc |-> "loop", attempt |-> 0, tries |-> 0,
                       log |-> <<>>, out |-> [ok |-> FALSE, error |-> "none"]]
    /\ SearchUnused
    /\ MatcherUnused
    /\ OptimizerUnused
    /\ ThreadsUnused

\* `for attempt in range(self.max_retries)`: the next attempt calls
\* extract_information
StartAttempt ==
    /\ refiner_last.pc = "loop"
    /\ refiner_last.attempt < refiner.max_retries
    /\ refiner_last' = [refiner_last EXCEPT !.pc = "request", !.tries = 0]
    /\ UNCHANGED <<refiner, searchVars, matcherVars, optimizerVars, threadVars>>

\* the loop ends without a return or a raise: "Maximum retries exceeded"
LoopExhausted ==
    /\ refiner_last.pc = "loop"
    /\ refiner_last.attempt >= refiner.max_retries
    /\ refiner_last' = [refiner_last EXCEPT
                          !.pc = "raised",
                          !.out = [ok |-> FALSE, error |-> "OpenAIIntegrationError"]]
    /\ UNCHANGED <<refiner, searchVars, matcherVars, optimizerVars, threadVars>>

\* the state of the call after an attempt has raised (the except handler of
\* the loop)
AttemptFailed(call) ==
    IF call.attempt = refiner.max_retries - 1
    THEN [call EXCEPT !.pc = "raised",
                      !.out = [ok |-> FALSE, error |-> "OpenAIIntegrationError"]]
    ELSE [call EXCEPT !.pc = "loop", !.attempt = @ + 1]

\* the state of the call after a request with this outcome
AfterRequest(call, outcome) ==
    IF outcome = "answer"
    THEN [call EXCEPT !.pc = "returned", !.out = [ok |-> TRUE, error |-> "none"]]
    ELSE IF retry_if_exception_type(outcome) /\ ~stop_after_attempt(call.tries)
    THEN call
    ELSE AttemptFailed(call)

\* one request to the AI service (client.chat.completions.create)
ServiceRequest ==
    /\ refiner_last.pc = "request"
    /\ \E outcome \in RequestOutcomes :
          refiner_last' =
              AfterRequest([refiner_last EXCEPT !.tries = @ + 1,
                                                !.log = Append(@, outcome)],
                           outcome)
    /\ refiner' = [refiner EXCEPT !.requests = @ + 1]
    /\ UNCHANGED <<searchVars, matcherVars, optimizerVars, threadVars>>

NextRetry == StartAttempt \/ LoopExhausted \/ ServiceRequest

SpecRetry == InitRetry /\ [][NextRetry]_vars

\* The call runs in one thread and every request is sent with a timeout, so
\* a step that can be taken is taken.
SpecRetryFair == SpecRetry /\ WF_vars(NextRetry)

CallFinished == refiner_last.pc \in {"returned", "raised"}

\* the attempts made so far: the calls of extract_information
AttemptsMade ==
    IF refiner_last.pc = "loop" THEN refiner_last.attempt
    ELSE IF CallFinished /\ refiner_last.log = <<>> THEN 0
    ELSE refiner_last.attempt + 1

\* C17 (as stated): one call makes at most max_retries requests to the AI
\* service.
C17_Original ==
    Len(refiner_last.log) <= refiner.max_retries

\* C17 (amended): one call makes at most max_retries attempts, each of at
\* most three requests to the AI service; the first answer ends the call
\* with no further request; when every attempt has failed the call raises
\* OpenAIIntegrationError after exactly max_retries attempts; and the call
\* always ends.
C17_Amended ==
    /\ [](/\ AttemptsMade <= refiner.max_retries
          /\ Len(refiner_last.log) <= 3 * refiner.max_retries
          /\ refiner.requests = Len(refiner_last.log)
          /\ \A i \in 1..Len(refiner_last.log) :
                refiner_last.log[i] = "answer"
                    => i = Len(refiner_last.log) /\ refiner_last.pc = "returned"
          /\ refiner_last.pc = "returned"
                => refiner_last.log[Len(refiner_last.log)] = "answer"
          /\ refiner_last.pc = "raised"
                => /\ refiner_last.out.error = "OpenAIIntegrationError"
                   /\ AttemptsMade = refiner.max_retries)
    /\ <>CallFinished

\* two attempts, each of three requests that failed with an API error, then
\* the integration error
C17_Witness ==
    /\ refiner.max_retries = 2
    /\ refiner_last.pc = "raised"
    /\ refiner_last.log =
          <<"transient", "transient", "transient", "transient", "transient", "transient">>
    /\ refiner.requests = 6

-----------------------------------------------------------------------------
(* Specification of the batch refinement: a refiner is built,              *)
(* refine_experiences_batch is called once                                 *)

\* What a call of refine_experiences_batch meets (see FilterInputs), and
\* its max_experiences and job_context arguments
BatchInputs ==
    { [scores |-> s, kind |-> k, batch_fails |-> f, each |-> e, short_first |-> sf,
       max_experiences |-> n, job_context |-> j] :
        s \in {<<>>, <<9, 6>>, ExampleScores}, k \in {"scored", "unscored"},
        f \in {0, MaxRetries}, e \in {AIDown, AIUnscored}, sf \in BOOLEAN,
        n \in 0..(MaxKeep + 1), j \in {None, Some(BackendJob)} }

InitBatch ==
    /\ refiner \in { NewRefiner(n, c) : n \in 0..MaxRetries, c \in BOOLEAN }
    /\ refiner_last = [op |-> "none"]
    /\ SearchUnused
    /\ MatcherUnused
    /\ OptimizerUnused
    /\ ThreadsUnused

\* the state once the call has returned or raised (step); refine_calls is
\* the number of refine_experience calls it made
BatchReturns(input, experiences, step) ==
    /\ refiner' = step.refiner
    /\ refiner_last' =
          [op |-> "batch", input |-> input, experiences |-> experiences,
           ok |-> step.ok, error |-> step.error,
           out |-> IF step.ok THEN step.value ELSE <<>>,
           refine_calls |-> step.refiner.stats.experiences_refined
                              - refiner.stats.experiences_refined]

\* one call of refine_experiences_batch
RefineExperiencesBatch ==
    /\ refiner_last.op = "none"
    /\ \E input \in BatchInputs :
          BatchReturns(
              input, Candidates(input),
              refine_experiences_batch(
                  refiner, Candidates(input), input.job_context, input.max_experiences,
                  [fails |-> input.batch_fails, kind |-> input.kind, scores |-> input.scores],
                  input.each))
    /\ UNCHANGED <<searchVars, matcherVars, optimizerVars, threadVars>>

NextBatch == RefineExperiencesBatch

SpecBatch == InitBatch /\ [][NextBatch]_vars

BatchCalled == refiner_last.op = "batch"

\* the experiences the call is to process: the first max_experiences
Processed ==
    [i \in 1..Min2(refiner_last.input.max_experiences, Len(refiner_last.experiences)) |->
        refiner_last.experiences[i]]

\* out has one record per processed experience, in the order of the input
OnePerProcessed ==
    /\ Len(refiner_last.out) = Len(Processed)
    /\ \A i \in 1..Len(Processed) :
          refiner_last.out[i].original_experience_id = Processed[i].id

\* the batched call to the AI service failed on every attempt
BatchCallFailed == refiner_last.input.batch_fails >= refiner.max_retries

\* the batched call was answered, and the answer has no entry for any index
AnswerUnmatched ==
    /\ ~BatchCallFailed
    /\ refiner_last.input.kind = "unscored"
    /\ Processed # <<>>

HasShortText == \E i \in 1..Len(Processed) : ~AtLeastTenChars(StripText(Processed[i].text))

-----------------------------------------------------------------------------
(* JobMatcher.get_matching_stats                                           *)

get_matching_stats(m) ==
    LET total_jobs == m.stats.jobs_processed
    IN  [jobs_processed |-> m.stats.jobs_processed,
         successful_matches |-> m.stats.successful_matches,
         failed_matches |-> m.stats.failed_matches,
         cache_hits |-> m.stats.cache_hits,
         total_experiences_found |-> m.stats.total_experiences_found,
         total_experiences_refined |-> m.stats.total_experiences_refined,
         success_rate |-> IF total_jobs > 0
                          THEN Rat(m.stats.successful_matches, total_jobs)
                          ELSE RInt(0),
         avg_experiences_per_job |-> Rat(m.stats.total_experiences_found,
                                         Max1(m.stats.successful_matches)),
         cache_efficiency |-> IF total_jobs > 0
                              THEN Rat(m.stats.cache_hits, total_jobs)
                              ELSE RInt(0)]

\* the three outcome counters
OutcomeCounters == {"successful_matches", "failed_matches", "cache_hits"}

\* C19: after any sequence of completed match_job_from_url and
\* match_job_from_description calls, jobs_processed is the number of calls,
\* each call has incremented exactly one of successful_matches,
\* failed_matches and cache_hits (so jobs_processed is their sum), and
\* get_matching_stats reports success_rate = successful_matches /
\* jobs_processed, 0 when no job was processed.
C19_CountersAccountForCalls ==
    /\ get_matching_stats(matcher).jobs_processed = matcher_last.calls
    /\ get_matching_stats(matcher).jobs_processed =
          matcher.stats.successful_matches + matcher.stats.failed_matches
              + matcher.stats.cache_hits
    /\ matcher_last.op \in {"url", "description"}
         => \E counter \in OutcomeCounters :
               /\ matcher.stats[counter] = matcher_last.stats_before[counter] + 1
               /\ \A other \in OutcomeCounters \ {counter} :
                     matcher.stats[other] = matcher_last.stats_before[other]
    /\ get_matching_stats(matcher).success_rate =
          (IF matcher_last.calls = 0 THEN <<0, 1>>
           ELSE Rat(matcher.stats.successful_matches, matcher_last.calls))

\* a call by url, counted as processed and failed, then a call by
\* description, which no counter records
C19_Witness ==
    /\ matcher_last.op = "description"
    /\ matcher_last.calls = 2
    /\ matcher.stats.jobs_processed = 1
    /\ matcher.stats.failed_matches = 1
    /\ matcher.stats = matcher_last.stats_before

-----------------------------------------------------------------------------
(* match_job_from_url called from several threads on one JobMatcher.  The  *)
(* class takes no lock: a thread can be interrupted between any two of     *)
(* the steps below, and `self._stats[k] += 1` is a load of the value       *)
(* followed by a store of the value plus one.                              *)

NumThreads == 2

Threads == 1..NumThreads

\* the statements `self._stats[...] += 1` of match_job_from_url and the
\* counter each of them updates
CounterAt ==
    [inc_jobs_processed |-> "jobs_processed",
     inc_cache_hits |-> "cache_hits",
     inc_failed_matches |-> "failed_matches"]

\* where the thread goes after each of them
AfterCounter ==
    [inc_jobs_processed |-> "check_cache",
     inc_cache_hits |-> "returned",
     inc_failed_matches |-> "raised"]

\* the stage the thread is in: left by raising moves to Failed, left by
\* returning moves to the next statement of the try block
NextStage_Stay(stage, ok) == stage

NextStage(stage, ok) ==
    IF ~ok THEN "Failed"
    ELSE PipelineStages[(CHOOSE i \in 1..Len(PipelineStages) : PipelineStages[i] = stage) + 1]

InitThreads ==
    /\ matcher \in { NewMatcher(i, 1, Tenths(5), TRUE, c) : i \in BOOLEAN, c \in BOOLEAN }
    /\ matcher_last = [op |-> "none"]
    /\ threads \in [Threads -> { [pc |-> "idle", job_url |-> u, refinement_type |-> "job_specific",
                                   loaded |-> None, stages |-> <<>>, out |-> None] :
                                     u \in Urls }]
    /\ SearchUnused
    /\ RefinerUnused
    /\ OptimizerUnused

\* the thread enters match_job_from_url
ThreadCall(t) ==
    /\ threads[t].pc = "idle"
    /\ threads' = [threads EXCEPT ![t].pc = "inc_jobs_processed"]
    /\ UNCHANGED <<matcherVars, searchVars, refinerVars, optimizerVars>>

\* self._stats[k] += 1, first half: the value is read
LoadCounter(t) ==
    /\ threads[t].pc \in DOMAIN CounterAt
    /\ threads[t].loaded = None
    /\ threads' = [threads EXCEPT ![t].loaded = Some(matcher.stats[CounterAt[threads[t].pc]])]
    /\ UNCHANGED <<matcherVars, searchVars, refinerVars, optimizerVars>>

\* self._stats[k] += 1, second half: the value read plus one is written
StoreCounter(t) ==
    /\ threads[t].pc \in DOMAIN CounterAt
    /\ threads[t].loaded # None
    /\ matcher' = [matcher EXCEPT !.stats[CounterAt[threads[t].pc]] = threads[t].loaded[1] + 1]
    /\ threads' = [threads EXCEPT ![t].pc = AfterCounter[threads[t].pc],
                                  ![t].loaded = None]
    /\ UNCHANGED <<matcher_last, searchVars, refinerVars, optimizerVars>>

\* the look into self._cache; on a miss step 1 starts
CheckCache(t) ==
    /\ threads[t].pc = "check_cache"
    /\ threads' =
          IF /\ Truthy(matcher.cache)
             /\ CacheHas(matcher.cache,
                         MatcherCacheKey(matcher, threads[t].job_url, threads[t].refinement_type))
          THEN [threads EXCEPT ![t].pc = "inc_cache_hits",
                               ![t].out = Some([ok |-> TRUE, error |-> "none",
                                                value |-> CacheGet(matcher.cache,
                                                    MatcherCacheKey(matcher, threads[t].job_url,
                                                                    threads[t].refinement_type))])]
          ELSE [threads EXCEPT ![t].pc = "extract",
                               ![t].stages = Append(@, "ExtractingJob")]
    /\ UNCHANGED <<matcherVars, searchVars, refinerVars, optimizerVars>>

\* the thread after step 1 has ended with the outcome e
AfterExtract(thread, e) ==
    [thread EXCEPT !.pc = IF e.ok THEN "generate_queries" ELSE "inc_failed_matches",
                   !.stages = Append(@, NextStage("ExtractingJob", e.ok)),
                   !.out = IF e.ok THEN None
                           ELSE Some([ok |-> FALSE, error |-> "JobMatchingError",
                                      cause |-> e.error])]

\* step 1: _extract_job_description, which raises; the handler is entered
ExtractJob(t) ==
    /\ threads[t].pc = "extract"
    /\ threads' = [threads EXCEPT
                     ![t] = AfterExtract(@, extract_job_description(matcher, threads[t].job_url))]
    /\ UNCHANGED <<matcherVars, searchVars, refinerVars, optimizerVars>>

NextThreads ==
    \E t \in Threads :
        \/ ThreadCall(t)
        \/ LoadCounter(t)
        \/ StoreCounter(t)
        \/ CheckCache(t)
        \/ ExtractJob(t)

SpecThreads == InitThreads /\ [][NextThreads]_vars

\* the thread's call has returned or raised
Finished(t) == threads[t].pc \in {"returned", "raised"}

\* the thread has executed self._stats["jobs_processed"] += 1
PastJobsProcessed(t) == threads[t].pc \notin {"idle", "inc_jobs_processed"}

\* the thread is between the load and the store of an update of counter
Updating(t, counter) ==
    /\ threads[t].pc \in DOMAIN CounterAt
    /\ CounterAt[threads[t].pc] = counter
    /\ threads[t].loaded # None

\* C20: concurrent requests on one matcher access the caches and the
\* counters one at a time: no two threads are inside an update of the same
\* counter at once, no increment is lost (jobs_processed is the number of
\* requests that have counted themselves, and once all have finished
\* failed_matches + cache_hits + successful_matches accounts for each), and
\* no cache entry is lost or half written.
C20_NoLostUpdate ==
    /\ \A counter \in {"jobs_processed", "cache_hits", "failed_matches"} :
          Cardinality({ t \in Threads : Updating(t, counter) }) <= 1
    /\ matcher.stats.jobs_processed = Cardinality({ t \in Threads : PastJobsProcessed(t) })
    /\ (\A t \in Threads : Finished(t))
          => matcher.stats.failed_matches + matcher.stats.cache_hits
                + matcher.stats.successful_matches = NumThreads
    /\ matcher.cache.isdict => \A item \in matcher.cache.items : item.value.ok

\* every request has finished and jobs_processed is short of their number
C20_Witness ==
    /\ \A t \in Threads : Finished(t)
    /\ matcher.stats.jobs_processed < NumThreads

\* the stages a request has started, without the terminal Failed
StagesRun(t) == SelectSeq(threads[t].stages, LAMBDA s : s # "Failed")

\* the request was answered from the cache
ServedFromCache(t) == threads[t].pc \in {"inc_cache_hits", "returned"}

-----------------------------------------------------------------------------
(* The list _refine_experiences hands to the result, on each of its paths  *)

\* _refine_experiences has returned a list
RefineReturned == matcher_last.op = "refine" /\ matcher_last.ok

\* it returned what _convert_to_refined_experiences built: refinement is
\* disabled, or the refiner is missing or has raised
ReturnedUnrefined ==
    /\ RefineReturned
    /\ \E k \in 1..Len(matcher_last.out) :
          matcher_last.out[k].refinement_notes = "No AI refinement applied"

\* C21: on every path on which _refine_experiences returns a list (AI
\* refinement succeeded, refinement disabled, refinement failed and the
\* unrefined fallback used), the list is sorted by relevance_score in
\* non-increasing order.
C21_SortedOnEveryPath ==
    RefineReturned
        => \A k \in 1..(Len(matcher_last.out) - 1) :
              RLe(matcher_last.out[k + 1].relevance_score, matcher_last.out[k].relevance_score)

\* refinement is disabled and the list returned has a lower score before a
\* higher one
C21_Witness ==
    /\ ReturnedUnrefined
    /\ ~matcher.enable_refinement
    /\ \E k \in 1..(Len(matcher_last.out) - 1) :
          RLt(matcher_last.out[k].relevance_score, matcher_last.out[k + 1].relevance_score)

\* C22: on every path on which _refine_experiences returns a list, every
\* experience of it has relevance_score >= min_relevance_score, and the list
\* has at most max_experiences elements (the search hands over at most
\* max_experiences candidates).
C22_FilteredOnEveryPath ==
    (RefineReturned /\ Len(matcher_last.experiences) <= matcher.max_experiences)
        => /\ Len(matcher_last.out) <= matcher.max_experiences
           /\ \A k \in 1..Len(matcher_last.out) :
                 RLe(matcher.min_relevance_score, matcher_last.out[k].relevance_score)

\* the refiner is missing, no more candidates than max_experiences arrived,
\* and the list returned holds an experience below min_relevance_score
C22_Witness ==
    /\ ReturnedUnrefined
    /\ matcher.enable_refinement
    /\ ~matcher.initialized
    /\ Len(matcher_last.experiences) <= matcher.max_experiences
    /\ \E k \in 1..Len(matcher_last.out) :
          RLt(matcher_last.out[k].relevance_score, matcher.min_relevance_score)

-----------------------------------------------------------------------------
(* Python floats.  The scores are IEEE 754 binary64 numbers: every         *)
(* operation on them gives the representable number nearest to the exact   *)
(* result, ties to the even significand.  The rationals above give the     *)
(* exact value of a formula; where a claim is about the numbers the        *)
(* program computes, the arithmetic below is used.  A natural number of    *)
(* any size is the sequence of its digits to the base 2^15, lowest first,  *)
(* without leading zero digits; a positive float is [m, e] with value      *)
(* m * 2^e and a significand m of exactly 53 bits.                         *)

DigitBits == 15

Base == 2 ^ DigitBits

\* bits of the significand of a binary64 float
SignificandBits == 53

RECURSIVE BTrim(_)
BTrim(a) == IF a # <<>> /\ a[Len(a)] = 0 THEN BTrim(SubSeq(a, 1, Len(a) - 1)) ELSE a

RECURSIVE BAddCarry(_, _, _)
BAddCarry(a, b, carry) ==
    IF a = <<>> /\ b = <<>> THEN (IF carry = 0 THEN <<>> ELSE <<carry>>)
    ELSE LET x == IF a = <<>> THEN 0 ELSE Head(a)
             y == IF b = <<>> THEN 0 ELSE Head(b)
         IN  <<(x + y + carry) % Base>>
             \o BAddCarry(IF a = <<>> THEN <<>> ELSE Tail(a),
                          IF b = <<>> THEN <<>> ELSE Tail(b),
                          (x + y + carry) \div Base)

BAdd(a, b) == BAddCarry(a, b, 0)

\* a * k for a digit k
RECURSIVE BMulDigit(_, _, _)
BMulDigit(a, k, carry) ==
    IF a = <<>> THEN (IF carry = 0 THEN <<>> ELSE <<carry>>)
    ELSE <<(Head(a) * k + carry) % Base>>
         \o BMulDigit(Tail(a), k, (Head(a) * k + carry) \div Base)

RECURSIVE BMul(_, _)
BMul(a, b) ==
    IF b = <<>> \/ a = <<>> THEN <<>>
    ELSE BAdd(BMulDigit(a, Head(b), 0), <<0>> \o BMul(a, Tail(b)))

\* quotient and remainder of a by a digit n, from the highest digit down
RECURSIVE BDivDigitFrom(_, _, _, _)
BDivDigitFrom(a, n, i, acc) ==
    IF i = 0 THEN [q |-> BTrim(acc.q), r |-> acc.r]
    ELSE BDivDigitFrom(a, n, i - 1,
                       [q |-> <<(acc.r * Base + a[i]) \div n>> \o acc.q,
                        r |-> (acc.r * Base + a[i]) % n])

BDivDigit(a, n) == BDivDigitFrom(a, n, Len(a), [q |-> <<>>, r |-> 0])

\* number of bits of a digit, of a natural number
RECURSIVE DigitLen(_)
DigitLen(d) == IF d = 0 THEN 0 ELSE 1 + DigitLen(d \div 2)

BitLen(a) == IF a = <<>> THEN 0 ELSE (Len(a) - 1) * DigitBits + DigitLen(a[Len(a)])

\* a * 2^s
ShiftLeft(a, s) ==
    IF a = <<>> THEN <<>>
    ELSE [i \in 1..(s \div DigitBits) |-> 0] \o BMulDigit(a, 2 ^ (s % DigitBits), 0)

\* a div 2^s, and whether bits were shifted out that are not all zero
ShiftRight(a, s) ==
    LET whole == IF s \div DigitBits < Len(a) THEN s \div DigitBits ELSE Len(a)
        d == BDivDigit(SubSeq(a, whole + 1, Len(a)), 2 ^ (s % DigitBits))
    IN  [q |-> d.q,
         sticky |-> d.r # 0 \/ \E i \in 1..whole : a[i] # 0]

IsOdd(a) == a # <<>> /\ a[1] % 2 = 1

\* a significand that has reached 2^53 by rounding up is 2^52 one exponent up
Renormalize(m, e) ==
    IF BitLen(m) > SignificandBits
    THEN [m |-> BDivDigit(m, 2).q, e |-> e + 1]
    ELSE [m |-> m, e |-> e]

\* guarded is the number cut to 54 bits, sticky says that more was cut off
RoundGuarded(guarded, sticky, e) ==
    Renormalize(
        IF IsOdd(guarded.q) /\ (guarded.sticky \/ sticky \/ IsOdd(BDivDigit(guarded.q, 2).q))
        THEN BAdd(BDivDigit(guarded.q, 2).q, <<1>>)
        ELSE BDivDigit(guarded.q, 2).q,
        e)

\* the float nearest to n * 2^e, or to a little more than it when sticky
RoundToFloat(n, e, sticky) ==
    IF BitLen(n) <= SignificandBits
    THEN [m |-> ShiftLeft(n, SignificandBits - BitLen(n)),
          e |-> e - (SignificandBits - BitLen(n))]
    ELSE RoundGuarded(ShiftRight(n, BitLen(n) - SignificandBits - 1), sticky,
                      e + (BitLen(n) - SignificandBits))

\* float(k) for an int k below the base
FloatOfInt(k) == RoundToFloat(<<k>>, 0, FALSE)

MinOf(a, b) == IF a < b THEN a ELSE b

\* x + y
FAdd(x, y) ==
    RoundToFloat(BAdd(ShiftLeft(x.m, x.e - MinOf(x.e, y.e)),
                      ShiftLeft(y.m, y.e - MinOf(x.e, y.e))),
                 MinOf(x.e, y.e), FALSE)

\* x * y
FMul(x, y) == RoundToFloat(BMul(x.m, y.m), x.e + y.e, FALSE)

\* the division x / k by an int k, once the digits of the quotient are there
FDivRounded(d, e) == RoundToFloat(d.q, e, d.r # 0)

\* x / k for an int k
FDivInt(x, k) == FDivRounded(BDivDigit(ShiftLeft(x.m, DigitBits), k), x.e - DigitBits)

\* the float written n/10 in decimal, for n in tenths
FloatOfTenths(n) == FDivInt(FloatOfInt(n), 10)

-----------------------------------------------------------------------------
(* _aggregate_multi_query_results on floats                                *)

\* a merge that averages the stored score with the new one, ignoring the
\* number of hits already merged
CombineDuplicateFloat_Unweighted(existing, result) ==
    [existing EXCEPT
        !.score = FDivInt(FAdd(existing.score, result.score), 2),
        !.query_count = existing.query_count + 1,
        !.query_matches = Append(existing.query_matches, result.query_info),
        !.final_score = FDivInt(FAdd(existing.score, result.score), 2)]

\* the branch "exp_id in experience_map", as the interpreter computes it
CombineDuplicateFloat(existing, result) ==
    LET existing_weight == existing.query_count
        total_weight == existing_weight + 1
        combined_score ==
            FDivInt(FAdd(FMul(existing.score, FloatOfInt(existing_weight)),
                         FMul(result.score, FloatOfInt(1))),
                    total_weight)
        boost_factor ==
            FAdd(FloatOfInt(1),
                 IF total_weight = 1 THEN [m |-> <<>>, e |-> 0]
                 ELSE FMul(FloatOfInt(total_weight - 1), FloatOfTenths(1)))
    IN  [existing EXCEPT
            !.score = combined_score,
            !.query_count = total_weight,
            !.query_matches = Append(existing.query_matches, result.query_info),
            !.final_score = FMul(combined_score, boost_factor)]

RECURSIVE AggregateIntoFloat(_, _)
AggregateIntoFloat(map, results) ==
    IF results = <<>> THEN map
    ELSE IF IndexOfId(map, Head(results).id) # 0
    THEN AggregateIntoFloat(
             [map EXCEPT ![IndexOfId(map, Head(results).id)] =
                             CombineDuplicateFloat(@, Head(results))],
             Tail(results))
    ELSE AggregateIntoFloat(Append(map, FirstSeen(Head(results))), Tail(results))

-----------------------------------------------------------------------------
(* Specification of the merge: hits are drawn, they are fed to             *)
(* _aggregate_multi_query_results in some order                            *)

MaxHits == 3

\* the hits a search can put into all_results, each with the query it
\* answers
HitOptions ==
    << [id |-> "e1", tenths |-> 1, query |-> "python"],
       [id |-> "e1", tenths |-> 4, query |-> "docker"],
       [id |-> "e1", tenths |-> 10, query |-> "kubernetes"],
       [id |-> "e2", tenths |-> 1, query |-> "python"],
       [id |-> "e2", tenths |-> 4, query |-> "docker"],
       [id |-> "e2", tenths |-> 10, query |-> "kubernetes"] >>

\* the lists of up to MaxHits hits, one list for each multiset
HitLists ==
    { h \in SeqsUpTo(1..Len(HitOptions), MaxHits) :
        \A i \in 1..(Len(h) - 1) : h[i] <= h[i + 1] }

\* the entries of all_results for the hits h, scores as floats
FloatResults(h) ==
    [i \in 1..Len(h) |->
        [id |-> HitOptions[h[i]].id,
         query_info |-> [query |-> HitOptions[h[i]].query],
         original_score |-> FloatOfTenths(HitOptions[h[i]].tenths),
         score |-> FloatOfTenths(HitOptions[h[i]].tenths)]]

\* the same entries with the exact values of the scores
ExactResults(h) ==
    [i \in 1..Len(h) |->
        [id |-> HitOptions[h[i]].id,
         query_info |-> [query |-> HitOptions[h[i]].query],
         original_score |-> Tenths(HitOptions[h[i]].tenths),
         score |-> Tenths(HitOptions[h[i]].tenths)]]

InitMerge ==
    /\ merge \in { [pc |-> "call", hits |-> h] : h \in HitLists }
    /\ MultiQueryUnused
    /\ RefinerUnused
    /\ MatcherUnused
    /\ OptimizerUnused
    /\ ThreadsUnused

\* the hits of h in the order given by the arrangement p
Arranged(h, p) == [i \in 1..Len(h) |-> h[p[i]]]

Arrangements(n) == { p \in [1..n -> 1..n] : \A i, j \in 1..n : i # j => p[i] # p[j] }

\* one call of _aggregate_multi_query_results, the hits in some order
AggregateMultiQueryResults ==
    /\ merge.pc = "call"
    /\ \E p \in Arrangements(Len(merge.hits)) :
          merge' = [pc |-> "returned", hits |-> merge.hits,
                    fed |-> Arranged(merge.hits, p),
                    out |-> AggregateIntoFloat(<<>>, FloatResults(Arranged(merge.hits, p)))]
    /\ UNCHANGED <<queries, limit, min_score, deduplicate, client, search_pc, search_out>>
    /\ UNCHANGED <<refinerVars, matcherVars, optimizerVars, threadVars>>

NextMerge == AggregateMultiQueryResults

SpecMerge == InitMerge /\ [][NextMerge]_vars

\* a <= b for natural numbers given by their digits
RECURSIVE BLeFrom(_, _, _)
BLeFrom(a, b, i) ==
    IF i = 0 THEN TRUE
    ELSE IF a[i] # b[i] THEN a[i] < b[i]
    ELSE BLeFrom(a, b, i - 1)

BLe(a, b) == IF Len(a) # Len(b) THEN Len(a) < Len(b) ELSE BLeFrom(a, b, Len(a))

\* x and y brought to the lower of their exponents
Aligned(x, y) == ShiftLeft(x.m, x.e - MinOf(x.e, y.e))

\* the floats x and y are at most k units of the last place of the smaller
\* exponent apart
WithinUlps(x, y, k) ==
    /\ BLe(Aligned(x, y), BAdd(Aligned(y, x), <<k>>))
    /\ BLe(Aligned(y, x), BAdd(Aligned(x, y), <<k>>))

MergeReturned == merge.pc = "returned"

\* the merged hit of the experience id in the list out
MergedHit(out, id) == out[CHOOSE k \in 1..Len(out) : out[k].id = id]

IdsOf(out) == { out[k].id : k \in 1..Len(out) }

\* what the same hits give when they are fed in the order of HitOptions,
\* as the program computes it and in exact arithmetic
ReferenceFloat == AggregateIntoFloat(<<>>, FloatResults(merge.hits))
ReferenceExact == AggregateInto(<<>>, ExactResults(merge.hits))
FedExact == AggregateInto(<<>>, ExactResults(merge.fed))

-----------------------------------------------------------------------------
(* The ranking of the multi-query search and the order of the queries      *)

\* the experience ids of a list of hits, in the order of the list
RankedIds(results) == [k \in 1..Len(results) |-> results[k].id]

\* what the search returns when the same queries, with the same answers of
\* the backend, are executed in the order given by the arrangement p
SearchInOrder(p) ==
    search_experiences_multi_query(client, Arranged(queries, p), limit, min_score, deduplicate)

\* C24: for fixed backend responses the ranked list of experience ids the
\* multi-query search returns (sorted by final_score, cut to limit) is the
\* same for every order in which the queries are executed and their results
\* merged, also when merged hits have equal final_score.
C24_RankingIndependentOfQueryOrder ==
    search_pc = "returned"
        => \A p \in Arrangements(Len(queries)) :
              /\ SearchInOrder(p).ok
              /\ RankedIds(SearchInOrder(p).results) = RankedIds(search_out.results)

\* with deduplication and limit 1, two queries of different texts, two
\* merged hits of equal final_score: the search has returned one
\* experience, and returns the other one when the queries are executed in
\* the other order
C24_Witness ==
    /\ search_pc = "returned"
    /\ deduplicate
    /\ limit = Some(1)
    /\ Len(queries) = 2
    /\ queries[1].query # queries[2].query
    /\ Len(search_out.aggregated) = 2
    /\ search_out.aggregated[1].final_score = search_out.aggregated[2].final_score
    /\ \E p \in Arrangements(Len(queries)) :
          RankedIds(SearchInOrder(p).results) # RankedIds(search_out.results)

\* the texts of the queries whose backend hits on the experience id were
\* merged, one per hit, in the order of execution
RECURSIVE ContributingFrom(_, _)
ContributingFrom(i, id) ==
    IF i > Len(queries) THEN <<>>
    ELSE [j \in 1..Cardinality({ n \in 1..Len(queries[i].response.hits) :
                                    /\ i \in SurvivingQueries
                                    /\ queries[i].response.hits[n].id = id
                                    /\ PassesMin(queries[i].response.hits[n]) })
             |-> Strip(queries[i].query)]
         \o ContributingFrom(i + 1, id)

MatchedQueries(hit) == [j \in 1..Len(hit.query_matches) |-> hit.query_matches[j].query]

\* C29: with deduplicate=true the output of the multi-query search holds at
\* most one hit per experience id, and the list of contributing queries of
\* a merged hit has exactly as many entries as its match count, one for
\* each backend hit merged into it.
C29_OneHitPerIdWithItsQueries ==
    (SearchReturned /\ deduplicate)
        => /\ \A k, l \in 1..Len(search_out.results) :
                 k # l => search_out.results[k].id # search_out.results[l].id
           /\ \A k \in 1..Len(search_out.results) :
                 /\ Len(search_out.results[k].query_matches) = search_out.results[k].query_count
                 /\ MatchedQueries(search_out.results[k])
                       = ContributingFrom(1, search_out.results[k].id)

\* three queries have hit e1 and one of them e2 as well: two hits are
\* returned, the one of e1 merged from three
C29_Witness ==
    /\ SearchReturned /\ deduplicate
    /\ Len(search_out.results) = 2
    /\ \E k \in 1..2 :
          /\ search_out.results[k].id = "e1"
          /\ search_out.results[k].query_count = 3
          /\ MatchedQueries(search_out.results[k]) = <<"python", "docker", "python">>

-----------------------------------------------------------------------------
(* The aggregated skills and tools of the result                           *)

\* the concatenation of the lists field of the experiences
RECURSIVE Flatten(_, _)
Flatten(experiences, field) ==
    IF experiences = <<>> THEN <<>>
    ELSE Head(experiences)[field] \o Flatten(Tail(experiences), field)

\* items is the case-insensitive, order-preserving union of the list all:
\* the first occurrences of all, ignoring case, in their order
IsOrderedUnion(items, all) ==
    LET firsts == { i \in 1..Len(all) :
                      \A j \in 1..(i - 1) : Lower(all[j]) # Lower(all[i]) }
    IN  /\ Len(items) = Cardinality(firsts)
        /\ \A k \in 1..Len(items) :
              \E i \in firsts :
                 /\ items[k] = all[i]
                 /\ Cardinality({ j \in firsts : j < i }) = k - 1

\* C25: aggregated_skills (and likewise aggregated_tools) of the
\* JobMatchResult that _create_job_match_result builds is the
\* case-insensitive, order-preserving union of the skills (tools) of the
\* final experiences: each once ignoring case, in the order of first
\* appearance, and nothing else.
C25_AggregatedSkillsAreOrderedUnion ==
    matcher_last.op = "create"
        => /\ matcher_last.out.ok
           /\ IsOrderedUnion(matcher_last.out.value.aggregated_skills,
                             Flatten(matcher_last.refined_experiences, "skills"))
           /\ IsOrderedUnion(matcher_last.out.value.aggregated_tools,
                             Flatten(matcher_last.refined_experiences, "tools_technologies"))

\* the aggregation was run on two experiences that share a skill, and has
\* raised
C25_Witness ==
    /\ matcher_last.op = "create"
    /\ Len(matcher_last.refined_experiences) = 2
    /\ \E s \in {"Python", "AWS"} :
          \A k \in 1..2 :
             \E i \in 1..Len(matcher_last.refined_experiences[k].skills) :
                matcher_last.refined_experiences[k].skills[i] = s
    /\ ~matcher_last.out.ok
    /\ matcher_last.out.cause = "TypeError"

-----------------------------------------------------------------------------
(* Specification of the local relevance score: an experience and a         *)
(* posting are drawn, calculate_relevance_score is called                  *)

\* the experiences scored: skills, text and categories vary on their own
ScoredExperiences ==
    { [id |-> "e1", company |-> "Acme", text |-> t, skills |-> s, categories |-> c] :
        t \in {"Built data pipelines in Python with Docker", "  Led the AWS migration  ",
               "Did stuff"},
        s \in {<<>>, <<"Python", "Docker">>, <<"AWS">>, <<"python", "Python", "kubernetes">>},
        c \in {<<>>, <<"Backend">>} }

\* the postings they are scored for
ScoringJobs ==
    { [title |-> "Backend Engineer", company |-> "Hooli",
       skills_mentioned |-> s, extracted_keywords |-> k, categories |-> c] :
        s \in {<<>>, <<"python", "docker", "kubernetes">>, <<"Python">>, <<"AWS", "Docker">>},
        k \in {<<>>, <<"Pipelines", "aws">>, <<"python", "Python", "migration">>},
        c \in {<<>>, <<"backend">>, <<"Backend", "data">>} }

InitRelevance ==
    /\ refiner = NewRefiner(MaxRetries, FALSE)
    /\ refiner_last \in { [op |-> "relevance", pc |-> "call",
                           experience |-> x, job_context |-> j] :
                            x \in ScoredExperiences, j \in ScoringJobs }
    /\ SearchUnused
    /\ MatcherUnused
    /\ OptimizerUnused
    /\ ThreadsUnused

\* one call of calculate_relevance_score
CalculateRelevanceScore ==
    /\ refiner_last.op = "relevance"
    /\ refiner_last.pc = "call"
    /\ refiner_last' =
          [op |-> "relevance", pc |-> "returned",
           experience |-> refiner_last.experience,
           job_context |-> refiner_last.job_context,
           out |-> calculate_relevance_score(refiner_last.experience,
                                             refiner_last.job_context)]
    /\ UNCHANGED <<refiner, searchVars, matcherVars, optimizerVars, threadVars>>

NextRelevance == CalculateRelevanceScore

SpecRelevance == InitRelevance /\ [][NextRelevance]_vars

RelevanceReturned == refiner_last.op = "relevance" /\ refiner_last.pc = "returned"

\* the members of the list, ignoring case
IgnoringCase(list) == { Lower(list[i]) : i \in 1..Len(list) }

\* n / d, and 0 when d is 0
RatioOrZero(n, d) == IF d = 0 THEN <<0, 1>> ELSE Rat(n, d)

\* the three ratios of the claim for the call made
SkillRatio ==
    RatioOrZero(Cardinality(IgnoringCase(refiner_last.experience.skills)
                            \cap IgnoringCase(refiner_last.job_context.skills_mentioned)),
                Cardinality(IgnoringCase(refiner_last.job_context.skills_mentioned)))

KeywordRatio ==
    RatioOrZero(Cardinality({ i \in 1..Len(refiner_last.job_context.extracted_keywords) :
                                Lower(refiner_last.job_context.extracted_keywords[i])
                                    \in WordsIn(refiner_last.experience.text) }),
                Len(refiner_last.job_context.extracted_keywords))

CategoryRatio ==
    RatioOrZero(Cardinality(IgnoringCase(refiner_last.experience.categories)
                            \cap IgnoringCase(refiner_last.job_context.categories)),
                Cardinality(IgnoringCase(refiner_last.job_context.categories)))

\* C26: the local relevance score is 0.5 * |expSkills & jobSkills| /
\* |jobSkills| + 0.3 * (job keywords found in the text) / |jobKeywords| +
\* 0.2 * |expCategories & jobCategories| / |jobCategories|, compared
\* ignoring case; it lies in [0, 1]; a term with an empty denominator
\* contributes 0 and nothing is raised; all three empty give 0.
C26_RelevanceScoreFormula ==
    RelevanceReturned
        => /\ refiner_last.out =
                 RAdd(RAdd(RMul(Rat(1, 2), SkillRatio), RMul(Rat(3, 10), KeywordRatio)),
                      RMul(Rat(1, 5), CategoryRatio))
           /\ RLe(<<0, 1>>, refiner_last.out)
           /\ RLe(refiner_last.out, <<1, 1>>)
           /\ (/\ refiner_last.job_context.skills_mentioned = <<>>
               /\ refiner_last.job_context.extracted_keywords = <<>>
               /\ refiner_last.job_context.categories = <<>>)
                 => refiner_last.out = <<0, 1>>

\* a posting without skills; the keyword "Pipelines" is found in the text
\* and "aws" is not, one of the two categories matches: 0.3 * 1/2 + 0.2 * 1/2
C26_Witness ==
    /\ RelevanceReturned
    /\ refiner_last.job_context.skills_mentioned = <<>>
    /\ refiner_last.experience.skills # <<>>
    /\ refiner_last.job_context.extracted_keywords = <<"Pipelines", "aws">>
    /\ refiner_last.experience.text = "Built data pipelines in Python with Docker"
    /\ refiner_last.job_context.categories = <<"Backend", "data">>
    /\ refiner_last.experience.categories = <<"Backend">>
    /\ refiner_last.out = <<1, 4>>

\* every individual call to the AI service fails on every attempt
EachCallFails == refiner_last.input.each.fails >= refiner.max_retries

\* the minimal record of the fallback for the experience x (the text
\* without the blanks around it)
IsMinimalRecord(r, x) ==
    /\ r.original_experience_id = x.id
    /\ r.accomplishments = <<StripText(x.text)>>
    /\ r.confidence_score = <<1, 2>>
    /\ r.refinement_notes = "Fallback processing"

\* C27: in refine_experiences_batch a failure on one experience never
\* aborts the batch: the call returns one record per processed experience,
\* and an experience whose refinement has failed (the AI call fails, or the
\* record built for it does not validate) has the minimal record
\* (accomplishments [its text], confidence 0.5, notes "Fallback
\* processing") while the others keep their results.
C27_OneFailureNeverAbortsBatch ==
    BatchCalled
        => /\ refiner_last.ok
           /\ OnePerProcessed
           /\ (BatchCallFailed /\ EachCallFails)
                 => \A i \in 1..Len(Processed) :
                       IsMinimalRecord(refiner_last.out[i], Processed[i])

\* the batched call fails, the individual calls are answered, the first of
\* the processed experiences has a text under ten characters: the whole
\* call has raised
C27_Witness ==
    /\ BatchCalled
    /\ BatchCallFailed
    /\ ~EachCallFails
    /\ Len(Processed) >= 2
    /\ ~AtLeastTenChars(StripText(Processed[1].text))
    /\ \A i \in 2..Len(Processed) : AtLeastTenChars(StripText(Processed[i].text))
    /\ ~refiner_last.ok
    /\ refiner_last.error = "pydantic.ValidationError"

-----------------------------------------------------------------------------
(* Failures of the stages and the handler of match_job_from_url            *)

\* the stages whose methods the try block of match_job_from_url calls
FailingStages == <<"ExtractingJob", "GeneratingQueries", "Searching", "Refining", "Aggregating">>

\* what the stage methods can do for the matcher m, as [ok, error]:
\* _generate_search_queries catches every exception of its body and returns
\* a list either way
StageOutcomes(stage, m, rf) ==
    CASE stage = "ExtractingJob" ->
           { [ok |-> o.ok, error |-> o.error] :
               o \in { extract_job_description(m, job_url) : job_url \in Urls } }
      [] stage = "GeneratingQueries" ->
           { [ok |-> Len(o) >= 0, error |-> "none"] :
               o \in { matcher_generate_search_queries(m, job_description) :
                         job_description \in StageJobs } }
      [] stage = "Searching" ->
           { [ok |-> o.ok, error |-> o.error] :
               o \in { search_relevant_experiences(m, matcher_generate_search_queries(m, job_description)) :
                         job_description \in StageJobs } }
      [] stage = "Refining" ->
           { [ok |-> o.ok, error |-> o.error] :
               o \in { refine_experiences(
                           m, rf, Candidates(input), BackendJob,
                           [fails |-> input.batch_fails, kind |-> input.kind,
                            scores |-> input.scores],
                           input.each) : input \in StageInputs } }
      [] stage = "Aggregating" ->
           { [ok |-> o.ok, error |-> o.error] :
               o \in { create_job_match_result(BackendJob, <<>>, <<>>) } }

\* the request ends in Failed when the handler is given the error e of the
\* stage: failed_matches is one more and JobMatchingError is raised
EndsInFailed(m, stage, e) ==
    /\ MatchFailed(m, <<stage>>, e).stages = <<stage, "Failed">>
    /\ MatchFailed(m, <<stage>>, e).out.error = "JobMatchingError"
    /\ ~MatchFailed(m, <<stage>>, e).out.ok
    /\ MatchFailed(m, <<stage>>, e).matcher.stats.failed_matches = m.stats.failed_matches + 1

\* a failure of the stage can end a request of the matcher in Failed
FailedReachableFrom(stage, m, rf) ==
    \E o \in StageOutcomes(stage, m, rf) :
        ~o.ok /\ EndsInFailed(m, stage, [error |-> o.error, cause |-> "none"])

\* the error of the stage call just made, None when it returned
StageRaised ==
    CASE matcher_last.op = "search" ->
           IF matcher_last.ok THEN None
           ELSE Some([error |-> matcher_last.error, cause |-> matcher_last.cause])
      [] matcher_last.op = "refine" ->
           IF matcher_last.ok THEN None
           ELSE Some([error |-> matcher_last.error, cause |-> "none"])
      [] matcher_last.op = "create" ->
           IF matcher_last.out.ok THEN None
           ELSE Some([error |-> matcher_last.out.error, cause |-> matcher_last.out.cause])
      [] OTHER -> None

StageCalled ==
    CASE matcher_last.op = "generate" -> "GeneratingQueries"
      [] matcher_last.op = "search" -> "Searching"
      [] matcher_last.op = "refine" -> "Refining"
      [] matcher_last.op = "create" -> "Aggregating"
      [] OTHER -> "none"

PenalizedPriority(priority, i) == <<priority[1] * (100 - 5 * (i - 1)), priority[2] * 100>>

\* the two rationals are the same number
SameRational(a, b) == a[1] * b[2] = b[1] * a[2]

\* C30: in the list generate_search_queries returns, the query at the
\* 1-based position i has rank i and final_priority =
\* priority * (1 - 0.05 * (i - 1)); every returned query has its priority in
\* (0, 1] and 0 < final_priority <= priority.
C30_RankAndFinalPriority ==
    OptimizerReturned =>
        \A i \in 1..Len(optimizer_call.out) :
            /\ optimizer_call.out[i].rank = i
            /\ SameRational(optimizer_call.out[i].final_priority,
                            PenalizedPriority(optimizer_call.out[i].priority, i))
            /\ RLt(RInt(0), optimizer_call.out[i].priority)
            /\ RLe(optimizer_call.out[i].priority, RInt(1))
            /\ RLt(RInt(0), optimizer_call.out[i].final_priority)
            /\ RLe(optimizer_call.out[i].final_priority, optimizer_call.out[i].priority)

\* eight queries were returned, the last of them with 0.65 of its priority,
\* and two neighbours of equal priority have different final priorities
C30_Witness ==
    /\ OptimizerReturned
    /\ Len(optimizer_call.out) = 8
    /\ SameRational(optimizer_call.out[8].final_priority,
                    RMul(optimizer_call.out[8].priority, Rat(65, 100)))
    /\ \E i \in 1..7 :
          /\ optimizer_call.out[i].priority = optimizer_call.out[i + 1].priority
          /\ RLt(optimizer_call.out[i + 1].final_priority, optimizer_call.out[i].final_priority)

====
